---- MODULE Spec2Model ----
(***************************************************************************)
(* Miami Beach Resort unified backend (src/unnamed/part_000, v6.5): the    *)
(* live booking aggregation core.  A dashboard request starts one or more  *)
(* upstream fetches (single fetchBeds24 calls or fetchAllBookingPages      *)
(* walks), the HTTP responses of the upstream arrive in any order, and the *)
(* handler answers once Promise.all / Promise.allSettled settles.          *)
(***************************************************************************)
EXTENDS Integers, Sequences, FiniteSets, TLC

VARIABLES
    useDirectApi,   \* process-wide flag of fetchBeds24
    req,            \* the request being served (view and query parameters)
    tasks,          \* the upstream fetches the handler started, in call-site order
    response,       \* the response sent for req (status 0: none yet)
    nResponses,     \* how many responses the handler has sent for req
    nUpstream,      \* how many upstream HTTP requests were issued for req
    writeTokenCache,\* the cached write credential and its expiry
    call,           \* a helper computation being evaluated: function and arguments
    result,         \* what that computation returned
    now,            \* Date.now(), in milliseconds since the process started
    tokenCalls,     \* the invocations of getWriteToken, by caller
    issued,         \* the write tokens the authentication endpoint has issued
    otpDoc,         \* the document of one email in the otp_codes collection
    verifies,       \* the verify-otp requests for that email, by client
    compared,       \* per issued passcode: how many wrong codes were compared with it
    rateLimitInfo,  \* the rate-limit snapshot of the last direct response that had one
    upstreamHeaders,\* the rate-limit headers the direct API may put on a response
    sseClients,     \* the responses of the connected /api/stream clients, in insertion order
    streams,        \* the /api/stream connections, by client
    webhooks,       \* the POST /webhook/booking requests, by delivery
    notifications,  \* the documents of the booking_notifications collection
    sessions,       \* the documents of the sessions collection, by token number
    adminReqs,      \* the requests to /admin/* routes, by client
    bookingCache,   \* the document 'current' of the v4.0 booking cache collection
    cacheUpdates    \* the v4.0 updateSingleBookingInCache calls, by delivery

\* the state of the credential cache's and the passcode's handlers
authVars == <<now, tokenCalls, issued, otpDoc, verifies, compared>>

\* the state outside the request being served that its handler never writes
sideVars == <<upstreamHeaders, sseClients, streams, webhooks, notifications,
              sessions, adminReqs, bookingCache, cacheUpdates>>

\* the state of the real-time stream and of the webhook handler
pushVars == <<sseClients, streams, webhooks, notifications>>

\* the state of the session middleware
sessionVars == <<sessions, adminReqs>>

\* the state of the v4.0 webhook cache
cacheVars == <<bookingCache, cacheUpdates>>

\* the state of the request handlers, the credential cache and the passcodes
baseVars == <<useDirectApi, req, tasks, response, nResponses, nUpstream,
              writeTokenCache, call, result, authVars, upstreamHeaders, rateLimitInfo>>

vars == <<useDirectApi, req, tasks, response, nResponses, nUpstream,
          writeTokenCache, call, result, authVars, sideVars, rateLimitInfo>>

\* the state of the request being served
requestVars == <<useDirectApi, req, tasks, response, nResponses, nUpstream,
                 rateLimitInfo, sideVars>>

\* the state of the request handling, which a helper computation leaves alone
handlerVars == <<useDirectApi, req, tasks, response, nResponses, nUpstream,
                 writeTokenCache, rateLimitInfo, sideVars>>

-----------------------------------------------------------------------------
(* Bounds of the model *)

\* records the upstream delivers, over all pages and queries of one request
MaxTotal == 2
\* the page cap the model gives the default walk (50 in the code); the other
\* call sites' caps are scaled in proportion
MaxPages == 5
\* the longest span, in days, a calendar request of the date checks asks for
MaxDays == 3
\* the longest record list the merge checks fold
MaxMerge == 3
\* tokens the authentication endpoint issues
MaxRefreshes == 2
\* how far the clock of the credential cache runs, in minutes
MaxClock == 3
\* verify-otp requests one client sends
MaxGuesses == 2
\* passcodes issued for the same email
MaxIssues == 2
MaxBeats == 1
MaxSessions == 2
MaxUses == 1

-----------------------------------------------------------------------------
(* JavaScript values *)

Undef == "undefined"

\* a number, a string (a sequence of characters) or undefined, as the value
\* of a booking's price or deposit
Num(n) == [t |-> "num", n |-> n, s |-> <<>>]
Str(s) == [t |-> "str", n |-> 0, s |-> s]
Missing == [t |-> "undef", n |-> 0, s |-> <<>>]

NaN == [nan |-> TRUE, n |-> 0]
Finite(n) == [nan |-> FALSE, n |-> n]

DigitValue(c) ==
    CASE c = "0" -> 0 [] c = "1" -> 1 [] c = "2" -> 2 [] c = "3" -> 3
      [] c = "4" -> 4 [] c = "5" -> 5 [] c = "6" -> 6 [] c = "7" -> 7
      [] c = "8" -> 8 [] c = "9" -> 9

IsDigit(c) == c \in {"0", "1", "2", "3", "4", "5", "6", "7", "8", "9"}

RECURSIVE SkipSpaces(_)
SkipSpaces(s) ==
    IF s # <<>> /\ Head(s) = " " THEN SkipSpaces(Tail(s)) ELSE s

\* the value of the longest prefix of digits of s, continuing from acc
RECURSIVE DigitPrefix(_, _)
DigitPrefix(s, acc) ==
    IF s # <<>> /\ IsDigit(Head(s))
    THEN DigitPrefix(Tail(s), 10 * acc + DigitValue(Head(s)))
    ELSE acc

\* parseFloat of a string of spaces, signs, digits and letters: leading
\* white space is skipped, then an optional sign and the longest run of
\* digits are read; what follows is ignored; no digit gives NaN
ParseFloatString(s) ==
    LET t == SkipSpaces(s)
        neg == t # <<>> /\ Head(t) = "-"
        u == IF t # <<>> /\ Head(t) \in {"-", "+"} THEN Tail(t) ELSE t
    IN  IF u # <<>> /\ IsDigit(Head(u))
        THEN Finite(IF neg THEN 0 - DigitPrefix(u, 0) ELSE DigitPrefix(u, 0))
        ELSE NaN

\* parseFloat(v): a number is converted to its string and read back
parseFloat(v) ==
    CASE v.t = "num" -> Finite(v.n)
      [] v.t = "str" -> ParseFloatString(v.s)
      [] OTHER -> NaN

\* x || 0 for a number x: NaN and 0 are falsy
OrZero(x) == IF x.nan \/ x.n = 0 THEN 0 ELSE x.n

\* a value the decoded JSON holds where the code expects an array
ArrV(a) == [t |-> "arr", a |-> a]
ObjV(o) == [t |-> "obj", a |-> <<o>>]
UndefV == [t |-> "undef", a |-> <<>>]

-----------------------------------------------------------------------------
(* Booking records *)

Booking(id, status, arrival, departure, price, deposit) ==
    [id |-> id, status |-> status, arrival |-> arrival, departure |-> departure,
     price |-> price, deposit |-> deposit, error |-> Undef]

\* the upstream's {success: false, error: msg} read as if it were a record
ErrorObject(msg) ==
    [id |-> Undef, status |-> Undef, arrival |-> Undef, departure |-> Undef,
     price |-> Missing, deposit |-> Missing, error |-> msg]

Ids == {"B1", "B2"}
Statuses == {"confirmed", "cancelled"}
Dates == {"2024-05-10", "2024-05-11"}

\* the records the upstream may return, by view
MergeRecords ==
    {Booking(i, s, "2024-05-10", "2024-05-11", Num(100), Num(50)) :
        i \in Ids, s \in Statuses}

HousekeepingRecords ==
    {Booking("B1", s, "2024-05-10", d, Num(100), Num(50)) :
        s \in Statuses, d \in Dates}

RevenueRecords ==
    { Booking("B1", "confirmed", "2024-05-10", "2024-05-11", Num(100), Num(50)),
      Booking("B2", "confirmed", "2024-05-10", "2024-05-11", Num(200), Num(0)),
      Booking("B3", "confirmed", "2024-05-10", "2024-05-11",
              Str(<<"b", "a", "d">>), Num(20)),
      Booking("B4", "confirmed", "2024-05-10", "2024-05-11",
              Str(<<"1", "2", "a">>), Missing),
      Booking("B5", "confirmed", "2024-05-10", "2024-05-11",
              Str(<<"7">>), Str(<<" ", "3">>)),
      Booking("B6", "cancelled", "2024-05-10", "2024-05-11", Num(100), Num(50)) }

RecordsOf(view) ==
    CASE view = "housekeeping" -> HousekeepingRecords
      [] view = "revenue" -> RevenueRecords
      [] OTHER -> MergeRecords

RECURSIVE SeqsOfLen(_, _)
SeqsOfLen(S, n) ==
    IF n = 0 THEN {<<>>}
    ELSE {Append(s, x) : s \in SeqsOfLen(S, n - 1), x \in S}

SeqsUpTo(S, n) == UNION {SeqsOfLen(S, k) : k \in 0..n}

-----------------------------------------------------------------------------
(* The upstream: what one HTTP request to Beds24 (or to the proxy) yields *)

WriteViews == {"postBookings", "legacyPost", "beds24Post"}

\* the record an upstream answering with a single object returns
SingleRecords(view) == {CHOOSE x \in RecordsOf(view) : x.status = "confirmed"}

\* {success: true, data: [...], pages: {nextPageExists}}, a bare array, a
\* single record object, {success: false, error: message}, or a transport
\* failure; a write is answered by a wrapped list, an error or a failure
Outcomes(view, n) ==
    {[kind |-> "wrapped", recs |-> r, next |-> b, error |-> Undef] :
        r \in SeqsUpTo(RecordsOf(view), n),
        b \in IF view \in WriteViews THEN {FALSE} ELSE BOOLEAN}
    \cup (IF view \in WriteViews THEN {}
          ELSE {[kind |-> "array", recs |-> r, next |-> FALSE, error |-> Undef] :
                    r \in SeqsUpTo(RecordsOf(view), n)}
               \cup {[kind |-> "single", recs |-> <<x>>, next |-> FALSE, error |-> Undef] :
                    x \in IF n >= 1 THEN SingleRecords(view) ELSE {}})
    \cup {[kind |-> "error", recs |-> <<>>, next |-> FALSE, error |-> "Unauthorized"]}
    \cup {[kind |-> "throw", recs |-> <<>>, next |-> FALSE, error |-> "fetch failed"]}

\* parseInt of a header value or of a number: the sign and the longest run
\* of digits after leading white space; no digit gives NaN
parseInt(v) ==
    CASE v.t = "num" -> Finite(v.n)
      [] v.t = "str" -> ParseFloatString(v.s)
      [] OTHER -> NaN

\* v || d for a header value v: null and the empty string are falsy
OrElse(v, d) == IF v.t = "str" /\ v.s # <<>> THEN v ELSE Num(d)

\* response.headers.get of X-FiveMinCreditLimit-Remaining,
\* X-FiveMinCreditLimit-ResetsIn and X-RequestCost: null when absent
NoRateHeaders == [remaining |-> Missing, resetsIn |-> Missing, requestCost |-> Missing]

RateHeaders ==
    {NoRateHeaders,
     [remaining |-> Str(<<"0">>), resetsIn |-> Str(<<"6", "0">>), requestCost |-> Missing],
     [remaining |-> Str(<<"7">>), resetsIn |-> Missing, requestCost |-> Str(<<"2">>)]}

\* let rateLimitInfo = { remaining: 1000, resetsIn: 0, lastUpdated: 0 }
InitialRateLimit ==
    [remaining |-> Finite(1000), resetsIn |-> Finite(0),
     requestCost |-> [undefined |-> TRUE], lastUpdated |-> 0]

\* a tracker that takes every response for a snapshot
TrackRateLimitAlways(info, h, t) ==
    [remaining |-> parseInt(h.remaining),
     resetsIn |-> parseInt(OrElse(h.resetsIn, 0)),
     requestCost |-> parseInt(OrElse(h.requestCost, 1)),
     lastUpdated |-> t]

\* if (remaining) { rateLimitInfo = {...} } of fetchBeds24Direct at time t
TrackRateLimit(info, h, t) ==
    IF h.remaining.t = "str" /\ h.remaining.s # <<>>
    THEN [remaining |-> parseInt(h.remaining),
          resetsIn |-> parseInt(OrElse(h.resetsIn, 0)),
          requestCost |-> parseInt(OrElse(h.requestCost, 1)),
          lastUpdated |-> t]
    ELSE info

\* what a call returns to its caller: threw with error, or result.data.data
\* (dd), result.data (d) and result.data.pages.nextPageExists === true (next)
Threw(msg) == [threw |-> TRUE, error |-> msg, dd |-> UndefV, d |-> UndefV, next |-> FALSE]
Returned(dd, d, next) == [threw |-> FALSE, error |-> Undef, dd |-> dd, d |-> d, next |-> next]

fetchBeds24Direct(o) ==
    CASE o.kind = "throw" -> Threw(o.error)
      [] o.kind = "error" ->
            Threw(IF o.error # Undef THEN o.error ELSE "API request failed")
      [] o.kind = "wrapped" -> Returned(ArrV(o.recs), ObjV(ErrorObject(Undef)), o.next)
      [] o.kind = "array" -> Returned(UndefV, ArrV(o.recs), FALSE)
      [] o.kind = "single" -> Returned(UndefV, ObjV(o.recs[1]), FALSE)

fetchBeds24ViaProxy(o) ==
    CASE o.kind = "throw" -> Threw(o.error)
      [] o.kind = "wrapped" -> Returned(ArrV(o.recs), ObjV(ErrorObject(Undef)), o.next)
      [] o.kind = "array" -> Returned(ArrV(o.recs), ObjV(ErrorObject(Undef)), FALSE)
      [] o.kind = "single" ->
            Returned(ObjV(o.recs[1]), ObjV(ErrorObject(Undef)), FALSE)
      [] o.kind = "error" ->
            Returned(ObjV(ErrorObject(o.error)), ObjV(ErrorObject(Undef)), FALSE)

-----------------------------------------------------------------------------
(* Page caps of the call sites of fetchAllBookingPages *)

DefaultMaxPages == 50
PastMaxPages == 10
FutureMaxPages == 20
RangeMaxPages == 30
CalendarMaxPages == 10
RevenueMaxPages == 30
SearchMaxPages == 10

\* a call site's cap in the model: MaxPages stands for the default 50
Scaled(c) == (c * MaxPages) \div DefaultMaxPages

-----------------------------------------------------------------------------
(* Credentials *)

Null == "null"

BEDS24_READ_TOKEN == "BEDS24_READ_TOKEN"

\* the token header of a request that has none
NoToken == "no token header"

\* the endpoint of the token exchange of getWriteToken
RefreshEndpoint == "authentication/token"

getReadToken == BEDS24_READ_TOKEN

\* a getToken that hands out the cached write credential
getTokenOfWriteCache == "WRITE_TOKEN"

\* the credential fetchBeds24 asks for, whatever the method
getToken == getReadToken

-----------------------------------------------------------------------------
(* Upstream fetches of a handler *)

\* a fetch carries, besides the variables of its code, a record of what has
\* happened to it: calls (fetchBeds24 calls made), nexts (the next-page
\* flags received), pages (the page parameter of each call), attempts (HTTP
\* requests sent by the fetchBeds24 call in progress), delivered (the
\* records the upstream has put on its pages), overtook (it settled while
\* a fetch before it in the handler's list was still outstanding) and
\* headers (the rate-limit headers of its last direct response)
Walk(label, maxPages) ==
    [label |-> label, kind |-> "walk", maxPages |-> maxPages,
     currentPage |-> 1, hasMorePages |-> TRUE, totalPages |-> 1,
     allBookings |-> <<>>, value |-> UndefV,
     st |-> "new", error |-> Undef, calls |-> 0, nexts |-> <<>>,
     endpoint |-> "bookings", method |-> "GET", token |-> NoToken,
     pages |-> <<>>, attempts |-> 0, delivered |-> <<>>, overtook |-> FALSE,
     headers |-> NoRateHeaders]

Fetch(label) ==
    [label |-> label, kind |-> "fetch", maxPages |-> 1,
     currentPage |-> 1, hasMorePages |-> TRUE, totalPages |-> 1,
     allBookings |-> <<>>, value |-> UndefV,
     st |-> "new", error |-> Undef, calls |-> 0, nexts |-> <<>>,
     endpoint |-> "bookings", method |-> "GET", token |-> NoToken,
     pages |-> <<>>, attempts |-> 0, delivered |-> <<>>, overtook |-> FALSE,
     headers |-> NoRateHeaders]

\* fetchBeds24(endpoint, {}, 'POST', body) of a write handler
Write(endpoint) ==
    [Fetch("write") EXCEPT !.endpoint = endpoint, !.method = "POST"]

\* fetchBeds24ViaProxy sends its request, without a token header
ViaProxy(t) == [t EXCEPT !.st = "proxy", !.token = NoToken, !.attempts = @ + 1]

\* { ...params, page: currentPage } of a walk; a single fetch has no page
PageParams(t) == IF t.kind = "walk" THEN Append(t.pages, t.currentPage) ELSE t.pages

\* a fetchBeds24 that tries the direct API whatever the flag says
CallFetchBeds24IgnoringFlag(t, direct) ==
    [t EXCEPT !.st = "direct", !.token = getToken, !.calls = @ + 1,
              !.pages = PageParams(t), !.attempts = 1]

\* a fetchBeds24 that spares the direct API when no credits remain
CallFetchBeds24Throttled(t, direct) ==
    IF direct /\ getToken # Null /\ rateLimitInfo.remaining # Finite(0)
    THEN [t EXCEPT !.st = "direct", !.token = getToken, !.calls = @ + 1,
                   !.pages = PageParams(t), !.attempts = 1]
    ELSE [ViaProxy(t) EXCEPT !.calls = @ + 1, !.pages = PageParams(t)]

\* fetchBeds24 is entered: the flag is read and the HTTP request is sent,
\* to the direct API with the token of getToken() in its header, or to the
\* proxy when the flag is off or there is no token
CallFetchBeds24(t, direct) ==
    IF direct /\ getToken # Null
    THEN [t EXCEPT !.st = "direct", !.token = getToken, !.calls = @ + 1,
                   !.pages = PageParams(t), !.attempts = 1]
    ELSE [ViaProxy(t) EXCEPT !.calls = @ + 1, !.pages = PageParams(t)]

\* result.data.data || result.data || [] and allBookings.concat(...):
\* concat appends an array's elements, and a non-array as one element
PageBookings(r) ==
    CASE r.dd.t # "undef" -> r.dd.a
      [] r.dd.t = "undef" /\ r.d.t # "undef" -> r.d.a
      [] OTHER -> <<>>

\* a loop turn that steps over a page
WalkPageSkipping(t, r) ==
    LET more == r.next IN
    [t EXCEPT !.allBookings = @ \o PageBookings(r),
              !.hasMorePages = more,
              !.currentPage = IF more THEN @ + 2 ELSE @,
              !.totalPages = IF more THEN t.currentPage + 2 ELSE @,
              !.nexts = Append(@, more),
              !.st = IF more THEN "delay" ELSE "done"]

\* one turn of the loop of fetchAllBookingPages after its page has arrived
WalkPage(t, r) ==
    LET more == r.next IN
    [t EXCEPT !.allBookings = @ \o PageBookings(r),
              !.hasMorePages = more,
              !.currentPage = IF more THEN @ + 1 ELSE @,
              !.totalPages = IF more THEN t.currentPage + 1 ELSE @,
              !.nexts = Append(@, more),
              !.st = IF more THEN "delay" ELSE "done"]

\* a single fetchBeds24 call of a handler has returned
FetchDone(t, r) == [t EXCEPT !.value = r.dd, !.st = "done"]

\* the fetchBeds24 call in progress is over, whichever way
CallOver(t) == [t EXCEPT !.attempts = 0]

TaskReturns(t, r) ==
    CallOver(IF t.kind = "walk" THEN WalkPage(t, r) ELSE FetchDone(t, r))

TaskFails(t, msg) == CallOver([t EXCEPT !.st = "failed", !.error = msg])

Settled(t) == t.st \in {"done", "failed"}

\* the upstream's answer o to a page request of walk t is noted
Received(t, o) ==
    IF t.kind = "walk" THEN [t EXCEPT !.delivered = @ \o o.recs] ELSE t

\* the views that fold the lists of several fetches into one
Merging == {"calendar", "getBookings", "dashboard"}

\* fetch i of a merging view has settled: did it overtake an earlier one?
Ranked(ts, i) ==
    IF req.view \in Merging /\ Settled(ts[i])
    THEN [ts EXCEPT ![i].overtook = \E j \in 1..(i - 1) : ~Settled(ts[j])]
    ELSE ts

RECURSIVE SumLen(_)
SumLen(ts) ==
    IF ts = <<>> THEN 0
    ELSE Len(Head(ts).allBookings)
         + (IF Head(ts).value.t = "arr" THEN Len(Head(ts).value.a) ELSE 0)
         + SumLen(Tail(ts))

\* how many more records the upstream may deliver during this request
Budget == MaxTotal - SumLen(tasks)

-----------------------------------------------------------------------------
(* Requests *)

Truthy(x) == x # Undef /\ x # ""

Request(view) ==
    [view |-> view, date |-> Undef, from |-> Undef, to |-> Undef,
     q |-> Undef, checkIn |-> Undef, filter |-> Undef, hasDateFilters |-> FALSE,
     id |-> Undef, endpoint |-> Undef]

\* req.query.date || getTodayBD()
DateOrToday(date, today) == IF Truthy(date) THEN date ELSE today

\* the requests a client may send, by view; today is what getTodayBD() reads
Queries(view) ==
    CASE view \in {"overview", "movements", "housekeeping", "calendar"} ->
            {[Request(view) EXCEPT !.date = DateOrToday(d, today)] :
                d \in Dates \cup {Undef, ""}, today \in Dates}
      [] view \in {"revenue", "range"} ->
            {[Request(view) EXCEPT !.from = f, !.to = t] :
                f \in {Undef, "", "2024-05-10"}, t \in {Undef, "", "2024-05-11"}}
      [] view = "search" ->
            {[Request(view) EXCEPT !.q = q, !.checkIn = c] :
                q \in {Undef, "", "smith"}, c \in {Undef, "2024-05-10"}}
      [] view = "booking" -> {[Request(view) EXCEPT !.id = i] : i \in Ids}
      [] view = "getBookings" ->
            {[Request(view) EXCEPT !.filter = f, !.hasDateFilters = h] :
                f \in {Undef, "", "current"}, h \in BOOLEAN}
      [] view = "postBookings" -> {Request(view)}
      [] view = "legacyPost" ->
            {[Request(view) EXCEPT !.endpoint = e] :
                e \in {Undef, "", "bookings", "inventory"}}
      [] view = "beds24Post" ->
            {[Request(view) EXCEPT !.endpoint = e] : e \in {"bookings", "inventory"}}
      [] OTHER -> {[Request(view) EXCEPT !.date = today] : today \in Dates}

\* a parameter check that refuses only when every required parameter is missing
ValidationErrorWhenAllMissing(r) ==
    CASE r.view = "range" /\ ~Truthy(r.from) /\ ~Truthy(r.to) ->
            "Required: from and to dates (YYYY-MM-DD format)"
      [] r.view = "revenue" /\ ~Truthy(r.from) /\ ~Truthy(r.to) ->
            "Required: from and to dates (YYYY-MM-DD)"
      [] r.view = "search" /\ ~Truthy(r.q) /\ ~Truthy(r.checkIn) ->
            "Required: q (search term) or checkIn date"
      [] OTHER -> Undef

\* the parameter check at the head of a handler: the 400 it answers, if any
ValidationError(r) ==
    CASE r.view = "range" /\ (~Truthy(r.from) \/ ~Truthy(r.to)) ->
            "Required: from and to dates (YYYY-MM-DD format)"
      [] r.view = "revenue" /\ (~Truthy(r.from) \/ ~Truthy(r.to)) ->
            "Required: from and to dates (YYYY-MM-DD)"
      [] r.view = "search" /\ ~Truthy(r.q) /\ ~Truthy(r.checkIn) ->
            "Required: q (search term) or checkIn date"
      [] r.view = "legacyPost" /\ ~Truthy(r.endpoint) -> "Missing endpoint parameter"
      [] OTHER -> Undef

\* GET /getBookings takes the single filtered walk
FilteredListing(r) == r.hasDateFilters \/ Truthy(r.filter)

\* the fetches a handler starts, in the order of its Promise.all list
FetchList(r) ==
    CASE r.view = "overview" -> <<Fetch("current"), Fetch("arrivals"), Fetch("departures")>>
      [] r.view = "calendar" ->
            <<Walk("arrivals", Scaled(CalendarMaxPages)),
              Walk("departures", Scaled(CalendarMaxPages)), Fetch("current")>>
      [] r.view = "movements" -> <<Fetch("arrivals"), Fetch("departures")>>
      [] r.view = "housekeeping" ->
            <<Fetch("current"), Fetch("departures"), Fetch("arrivals")>>
      [] r.view = "revenue" -> <<Walk("departures", Scaled(RevenueMaxPages))>>
      [] r.view = "search" -> <<Walk("search", Scaled(SearchMaxPages))>>
      [] r.view = "booking" -> <<Fetch("booking")>>
      [] r.view = "range" -> <<Walk("range", Scaled(RangeMaxPages))>>
      [] r.view = "getBookings" ->
            IF FilteredListing(r)
            THEN <<Walk("filtered", Scaled(DefaultMaxPages))>>
            ELSE <<Walk("past", Scaled(PastMaxPages)),
                   Walk("future", Scaled(FutureMaxPages))>>
      [] r.view = "dashboard" ->
            <<Fetch("current"), Fetch("arrivals"), Fetch("departures")>>
      [] r.view = "postBookings" -> <<Write("bookings")>>
      [] r.view \in {"legacyPost", "beds24Post"} -> <<Write(r.endpoint)>>

\* every handler awaiting with Promise.allSettled
TolerantEverywhere(view) == TRUE

\* the handlers that await their fetches with Promise.allSettled
Tolerant(view) == view = "dashboard"

-----------------------------------------------------------------------------
(* Post-processing of the handlers *)

\* a filter that lets every record through
NotCancelledKeepsAll(list) == list

\* list.filter(b => b.status !== 'cancelled')
NotCancelled(list) == SelectSeq(list, LAMBDA b : b.status # "cancelled")

\* a merge that collects the records without keying them by id
MapSetAppendOnly(m, b) == Append(m, b)

\* a set that deletes the entry of a key it already holds
MapSetOrDelete(m, b) ==
    IF \E i \in 1..Len(m) : m[i].id = b.id
    THEN SelectSeq(m, LAMBDA x : x.id # b.id)
    ELSE Append(m, b)

\* bookingMap.set(b.id, b): a Map keeps a key at its first insertion's place
MapSet(m, b) ==
    IF \E i \in 1..Len(m) : m[i].id = b.id
    THEN [i \in 1..Len(m) |-> IF m[i].id = b.id THEN b ELSE m[i]]
    ELSE Append(m, b)

\* list.forEach(b => bookingMap.set(b.id, b)), then Array.from(bookingMap.values())
RECURSIVE MapFold(_, _)
MapFold(m, list) ==
    IF list = <<>> THEN m ELSE MapFold(MapSet(m, Head(list)), Tail(list))

\* result.data.data || [] of a single fetch
DataOrEmpty(t) == IF t.value.t = "undef" THEN ArrV(<<>>) ELSE t.value

\* the totals of GET /api/revenue: the reduce and the outstanding amount
RECURSIVE SumPrice(_)
SumPrice(list) ==
    IF list = <<>> THEN 0
    ELSE OrZero(parseFloat(Head(list).price)) + SumPrice(Tail(list))

RECURSIVE SumDeposit(_)
SumDeposit(list) ==
    IF list = <<>> THEN 0
    ELSE OrZero(parseFloat(Head(list).deposit)) + SumDeposit(Tail(list))

Totals(bookings) ==
    [totalPrice |-> SumPrice(bookings), totalDeposit |-> SumDeposit(bookings),
     bookingCount |-> Len(bookings),
     outstanding |-> SumPrice(bookings) - SumDeposit(bookings)]

NoResponse == [status |-> 0, body |-> [success |-> FALSE]]
Failure(status, msg) == [status |-> status, body |-> [success |-> FALSE, error |-> msg]]
Success(body) == [status |-> 200, body |-> body]

\* .filter on, or the spread of, a value that is no array throws
TypeErrorMessage == "TypeError"

-----------------------------------------------------------------------------
(* The view assemblers: the response of a handler whose fetches have all
   returned.  ts is the handler's fetch list in call-site order. *)

\* an overview that leaves out of departures what arrivals already lists
OverviewDeduplicated(r, ts) ==
    LET current == DataOrEmpty(ts[1])
        arrivals == DataOrEmpty(ts[2])
        departures == DataOrEmpty(ts[3])
    IN  IF "obj" \in {current.t, arrivals.t, departures.t}
        THEN Failure(500, TypeErrorMessage)
        ELSE LET activeBookings == NotCancelled(current.a)
                 todayArrivals == NotCancelled(arrivals.a)
                 todayDepartures ==
                     SelectSeq(NotCancelled(departures.a),
                               LAMBDA b : \A k \in 1..Len(todayArrivals) :
                                              todayArrivals[k].id # b.id)
             IN  Success([success |-> TRUE, date |-> r.date,
                          stats |-> [occupied |-> Len(activeBookings),
                                     checkIns |-> Len(todayArrivals),
                                     checkOuts |-> Len(todayDepartures)],
                          current |-> activeBookings,
                          arrivals |-> todayArrivals,
                          departures |-> todayDepartures])

Overview(r, ts) ==
    LET current == DataOrEmpty(ts[1])
        arrivals == DataOrEmpty(ts[2])
        departures == DataOrEmpty(ts[3])
    IN  IF "obj" \in {current.t, arrivals.t, departures.t}
        THEN Failure(500, TypeErrorMessage)
        ELSE LET activeBookings == NotCancelled(current.a)
                 todayArrivals == NotCancelled(arrivals.a)
                 todayDepartures == NotCancelled(departures.a)
             IN  Success([success |-> TRUE, date |-> r.date,
                          stats |-> [occupied |-> Len(activeBookings),
                                     checkIns |-> Len(todayArrivals),
                                     checkOuts |-> Len(todayDepartures)],
                          current |-> activeBookings,
                          arrivals |-> todayArrivals,
                          departures |-> todayDepartures])

Calendar(r, ts) ==
    LET current == DataOrEmpty(ts[3])
    IN  IF current.t = "obj"
        THEN Failure(500, TypeErrorMessage)
        ELSE LET bookings ==
                     MapFold(<<>>, NotCancelled(ts[1].allBookings
                                                \o ts[2].allBookings \o current.a))
             IN  Success([success |-> TRUE, count |-> Len(bookings), data |-> bookings])

Movements(r, ts) ==
    LET arrivalsData == DataOrEmpty(ts[1])
        departuresData == DataOrEmpty(ts[2])
    IN  IF "obj" \in {arrivalsData.t, departuresData.t}
        THEN Failure(500, TypeErrorMessage)
        ELSE LET arrivals == NotCancelled(arrivalsData.a)
                 departures == NotCancelled(departuresData.a)
             IN  Success([success |-> TRUE, date |-> r.date,
                          checkIns |-> [count |-> Len(arrivals), data |-> arrivals],
                          checkOuts |-> [count |-> Len(departures), data |-> departures]])

\* a housekeeping view that takes its stayovers from the unfiltered list
HousekeepingRawStayovers(r, ts) ==
    LET currentData == DataOrEmpty(ts[1])
        departuresData == DataOrEmpty(ts[2])
        arrivalsData == DataOrEmpty(ts[3])
    IN  IF "obj" \in {currentData.t, departuresData.t, arrivalsData.t}
        THEN Failure(500, TypeErrorMessage)
        ELSE LET current == NotCancelled(currentData.a)
                 departures == NotCancelled(departuresData.a)
                 arrivals == NotCancelled(arrivalsData.a)
             IN  Success([success |-> TRUE, date |-> r.date,
                          summary |-> [occupied |-> Len(current),
                                       departing |-> Len(departures),
                                       arriving |-> Len(arrivals),
                                       stayovers |-> Len(current) - Len(departures)],
                          departures |-> departures,
                          arrivals |-> arrivals,
                          stayovers |->
                              SelectSeq(currentData.a, LAMBDA c : c.departure # r.date)])

Housekeeping(r, ts) ==
    LET currentData == DataOrEmpty(ts[1])
        departuresData == DataOrEmpty(ts[2])
        arrivalsData == DataOrEmpty(ts[3])
    IN  IF "obj" \in {currentData.t, departuresData.t, arrivalsData.t}
        THEN Failure(500, TypeErrorMessage)
        ELSE LET current == NotCancelled(currentData.a)
                 departures == NotCancelled(departuresData.a)
                 arrivals == NotCancelled(arrivalsData.a)
             IN  Success([success |-> TRUE, date |-> r.date,
                          summary |-> [occupied |-> Len(current),
                                       departing |-> Len(departures),
                                       arriving |-> Len(arrivals),
                                       stayovers |-> Len(current) - Len(departures)],
                          departures |-> departures,
                          arrivals |-> arrivals,
                          stayovers |->
                              SelectSeq(current, LAMBDA c : c.departure # r.date)])

Revenue(r, ts) ==
    LET bookings == NotCancelled(ts[1].allBookings)
    IN  Success([success |-> TRUE, totals |-> Totals(bookings), bookings |-> bookings])

Search(r, ts) ==
    Success([success |-> TRUE, count |-> Len(ts[1].allBookings),
             data |-> ts[1].allBookings])

\* data is bookings[0] || null: the empty sequence stands for null
SingleBooking(r, ts) ==
    LET bookings == DataOrEmpty(ts[1])
    IN  Success([success |-> TRUE,
                 data |-> IF bookings.t = "arr" /\ bookings.a # <<>>
                          THEN <<Head(bookings.a)>> ELSE <<>>])

\* a default listing that drops the cancelled records
GetBookingsWithoutCancelled(r, ts) ==
    IF r.hasDateFilters \/ Truthy(r.filter)
    THEN Success([success |-> TRUE, count |-> Len(ts[1].allBookings),
                  totalPages |-> ts[1].totalPages, data |-> ts[1].allBookings])
    ELSE LET allBookings ==
                 SelectSeq(ts[1].allBookings \o ts[2].allBookings,
                           LAMBDA b : b.status # "cancelled")
         IN  Success([success |-> TRUE, count |-> Len(allBookings),
                      totalPages |-> ts[1].totalPages + ts[2].totalPages,
                      data |-> allBookings])

\* a default listing that folds its two walks in the order they completed
GetBookingsByCompletion(r, ts) ==
    IF FilteredListing(r)
    THEN Success([success |-> TRUE, count |-> Len(ts[1].allBookings),
                  totalPages |-> ts[1].totalPages, data |-> ts[1].allBookings])
    ELSE LET allBookings ==
                 IF ts[2].overtook
                 THEN MapFold(<<>>, ts[2].allBookings \o ts[1].allBookings)
                 ELSE MapFold(<<>>, ts[1].allBookings \o ts[2].allBookings)
         IN  Success([success |-> TRUE, count |-> Len(allBookings),
                      totalPages |-> ts[1].totalPages + ts[2].totalPages,
                      data |-> allBookings])

GetBookings(r, ts) ==
    IF FilteredListing(r)
    THEN Success([success |-> TRUE, count |-> Len(ts[1].allBookings),
                  totalPages |-> ts[1].totalPages, data |-> ts[1].allBookings])
    ELSE LET allBookings == MapFold(<<>>, ts[1].allBookings \o ts[2].allBookings)
         IN  Success([success |-> TRUE, count |-> Len(allBookings),
                      totalPages |-> ts[1].totalPages + ts[2].totalPages,
                      data |-> allBookings])

GetBookingsRange(r, ts) ==
    Success([success |-> TRUE, count |-> Len(ts[1].allBookings),
             totalPages |-> ts[1].totalPages, data |-> ts[1].allBookings])

\* a rejected fetch of Promise.allSettled counts as the empty list
SettledData(t) == IF t.st = "done" THEN DataOrEmpty(t) ELSE ArrV(<<>>)

DashboardData(r, ts) ==
    LET current == SettledData(ts[1])
        arrivals == SettledData(ts[2])
        departures == SettledData(ts[3])
    IN  IF "obj" \in {current.t, arrivals.t, departures.t}
        THEN Failure(500, TypeErrorMessage)
        ELSE LET uniqueBookings ==
                     NotCancelled(MapFold(<<>>, current.a \o arrivals.a \o departures.a))
             IN  Success([success |-> TRUE,
                          stats |-> [occupied |-> Len(NotCancelled(current.a)),
                                     checkInsToday |->
                                         Len(SelectSeq(arrivals.a, LAMBDA b :
                                             b.arrival = r.date /\ b.status # "cancelled")),
                                     checkOutsToday |->
                                         Len(SelectSeq(departures.a, LAMBDA b :
                                             b.departure = r.date)),
                                     totalActive |-> Len(uniqueBookings)],
                          data |-> uniqueBookings])

\* result.data of a write: the upstream's object, or the proxy's wrapping of
\* a payload that has no data
ResultData(t) ==
    IF t.value.t = "obj" THEN [data |-> t.value]
    ELSE [success |-> TRUE, data |-> t.value]

\* POST /bookings: res.json({success: true, data: result.data})
PostBookings(r, ts) == Success([success |-> TRUE, data |-> ResultData(ts[1])])

\* POST /?endpoint= and POST /beds24/*: res.json(result.data)
PostThrough(r, ts) == Success(ResultData(ts[1]))

Assemble(r, ts) ==
    CASE r.view = "overview" -> Overview(r, ts)
      [] r.view = "calendar" -> Calendar(r, ts)
      [] r.view = "movements" -> Movements(r, ts)
      [] r.view = "housekeeping" -> Housekeeping(r, ts)
      [] r.view = "revenue" -> Revenue(r, ts)
      [] r.view = "search" -> Search(r, ts)
      [] r.view = "booking" -> SingleBooking(r, ts)
      [] r.view = "getBookings" -> GetBookings(r, ts)
      [] r.view = "range" -> GetBookingsRange(r, ts)
      [] r.view = "dashboard" -> DashboardData(r, ts)
      [] r.view = "postBookings" -> PostBookings(r, ts)
      [] r.view \in {"legacyPost", "beds24Post"} -> PostThrough(r, ts)

-----------------------------------------------------------------------------
(* The handler around its fetches *)

AllSettled(ts) == \A i \in 1..Len(ts) : Settled(ts[i])
SomeFailed(ts) == \E i \in 1..Len(ts) : ts[i].st = "failed"
AllDone(ts) == \A i \in 1..Len(ts) : ts[i].st = "done"

\* the await of the handler resumes: Promise.all on the first rejection or
\* when every fetch has returned, Promise.allSettled when every fetch settled
Resumes(r, ts) ==
    IF Tolerant(r.view) THEN AllSettled(ts) ELSE SomeFailed(ts) \/ AllDone(ts)

\* the catch block: res.status(500).json({success: false, error: error.message})
Catch(ts) == Failure(500, ts[CHOOSE i \in 1..Len(ts) : ts[i].st = "failed"].error)

\* what the handler sends when its await resumes
Answer(r, ts) ==
    IF ~Tolerant(r.view) /\ SomeFailed(ts) THEN Catch(ts) ELSE Assemble(r, ts)

-----------------------------------------------------------------------------
(* Actions *)

ReadViews ==
    {"overview", "calendar", "movements", "housekeeping", "revenue", "search",
     "booking", "getBookings", "range", "dashboard"}

Views == ReadViews \cup WriteViews

\* the loop condition with the cap off by one
LoopContinuesPastCap(t) == t.hasMorePages /\ t.currentPage <= t.maxPages + 1

\* while (hasMorePages && currentPage <= maxPages)
LoopContinues(t) == t.hasMorePages /\ t.currentPage <= t.maxPages

\* a fetch of the handler is started: a walk enters its loop
Start(t, direct) ==
    IF t.kind = "walk" /\ ~LoopContinues(t)
    THEN [t EXCEPT !.st = "done"]
    ELSE CallFetchBeds24(t, direct)

InFlight(ts) == Cardinality({i \in 1..Len(ts) : ts[i].st \in {"direct", "proxy"}})

HandlerContinues(ts) ==
    IF nResponses = 0 /\ Resumes(req, ts)
    THEN /\ response' = Answer(req, ts)
         /\ nResponses' = nResponses + 1
    ELSE UNCHANGED <<response, nResponses>>

\* the callers of getWriteToken that may be inside it at the same time
Callers == {"c1", "c2"}

\* the clients that send verify-otp requests for the same email
Verifiers == {"v1", "v2"}

\* getWriteToken has not been invoked by this caller
IdleCall ==
    [st |-> "idle", now |-> 0, seen |-> [token |-> Null, expiresAt |-> 0],
     requests |-> 0, value |-> Null, expiresIn |-> 0,
     cached |-> [token |-> Null, expiresAt |-> 0]]

\* otpCollection.doc(email) does not exist
NoDoc == [exists |-> FALSE, otp |-> Undef, expiresAt |-> 0, attempts |-> 0, issue |-> 0]

\* this client has no verify-otp request under way
IdleVerify ==
    [st |-> "idle", otp |-> Undef, write |-> "none", attempts |-> 0,
     status |-> 0, error |-> Undef, sent |-> 0]

InitAuth ==
    /\ now = 0
    /\ tokenCalls = [c \in Callers |-> IdleCall]
    /\ issued = <<>>
    /\ otpDoc = NoDoc
    /\ verifies = [v \in Verifiers |-> IdleVerify]
    /\ compared = <<>>

\* the browsers that open GET /api/stream
Clients == {"s1", "s2"}

\* the deliveries of the booking provider to POST /webhook/booking
Hooks == {"w1", "w2"}

\* this client has not opened /api/stream
NoStream == [st |-> "none", beating |-> FALSE, failed |-> FALSE, beats |-> 0]

\* this delivery has not arrived
NoHook ==
    [st |-> "idle", action |-> Undef, writes |-> <<>>, status |-> 0,
     success |-> FALSE, error |-> Undef, sseClientsNotified |-> 0]

\* const sseClients = new Set(); no connection, no delivery, an empty collection
InitPush ==
    /\ sseClients = <<>>
    /\ streams = [c \in Clients |-> NoStream]
    /\ webhooks = [w \in Hooks |-> NoHook]
    /\ notifications = <<>>

\* the clients that call /admin/* routes
Admins == {"a1", "a2"}

\* this client has no /admin/* request under way
IdleAdmin ==
    [st |-> "idle", token |-> Undef, status |-> 0, error |-> Undef,
     ran |-> FALSE, sent |-> 0]

\* no session has been created
InitSessions ==
    /\ sessions = <<>>
    /\ adminReqs = [a \in Admins |-> IdleAdmin]

\* bookingCacheCollection.doc('current') does not exist
NoCache == [exists |-> FALSE, data |-> <<>>, lastWebhook |-> Undef]

\* updateSingleBookingInCache has not been called for this delivery
IdleUpdate == [st |-> "idle", booking |-> Undef, bookings |-> <<>>]

InitCache ==
    /\ bookingCache = NoCache
    /\ cacheUpdates = [w \in Hooks |-> IdleUpdate]

\* no helper computation is under evaluation
NoCall == [fn |-> "none"]
NotEvaluated == [done |-> FALSE]

Init ==
    /\ useDirectApi = TRUE
    /\ req = Request("none")
    /\ tasks = <<>>
    /\ response = NoResponse
    /\ nResponses = 0
    /\ nUpstream = 0
    /\ writeTokenCache = [token |-> Null, expiresAt |-> 0]
    /\ rateLimitInfo = InitialRateLimit
    /\ upstreamHeaders = {NoRateHeaders}
    /\ call = NoCall
    /\ result = NotEvaluated
    /\ InitAuth
    /\ InitPush
    /\ InitSessions
    /\ InitCache

\* a request arrives while no fetch of an earlier one is outstanding: the
\* handler checks its parameters and starts its fetches
Receive(view) ==
    /\ req.view = "none"
    /\ \E r \in Queries(view) :
        /\ req' = r
        /\ IF ValidationError(r) # Undef
           THEN /\ tasks' = <<>>
                /\ nUpstream' = 0
                /\ response' = Failure(400, ValidationError(r))
                /\ nResponses' = 1
           ELSE LET ts == [i \in 1..Len(FetchList(r)) |->
                              Start(FetchList(r)[i], useDirectApi)]
                IN  /\ tasks' = ts
                    /\ nUpstream' = InFlight(ts)
                    /\ IF Resumes(r, ts)
                       THEN response' = Answer(r, ts) /\ nResponses' = 1
                       ELSE response' = NoResponse /\ nResponses' = 0
    /\ UNCHANGED <<useDirectApi, writeTokenCache, call, result, authVars, sideVars, rateLimitInfo>>

\* the direct API answers fetch i, or the transport fails: a response's
\* rate-limit headers are tracked; then fetchBeds24 returns the result, or
\* catches the error, clears useDirectApi and asks the proxy
DirectResponds(i) ==
    /\ tasks[i].st = "direct"
    /\ \E o \in Outcomes(req.view, Budget) :
      \E h \in IF o.kind = "throw" THEN {NoRateHeaders} ELSE upstreamHeaders :
        LET r == fetchBeds24Direct(o) IN
        /\ rateLimitInfo' = TrackRateLimit(rateLimitInfo, h, now)
        /\ IF r.threw
           THEN /\ useDirectApi' = FALSE
                /\ tasks' = [tasks EXCEPT ![i] = [ViaProxy(@) EXCEPT !.headers = h]]
                /\ nUpstream' = nUpstream + 1
                /\ UNCHANGED <<response, nResponses>>
           ELSE LET ts == Ranked([tasks EXCEPT ![i] =
                                     [Received(TaskReturns(@, r), o)
                                         EXCEPT !.headers = h]], i) IN
                /\ tasks' = ts
                /\ HandlerContinues(ts)
                /\ UNCHANGED <<useDirectApi, nUpstream>>
    /\ UNCHANGED <<req, writeTokenCache, call, result, authVars, sideVars>>

\* the proxy answers fetch i: fetchBeds24 returns the normalised result, or
\* rejects when the transport failed
ProxyResponds(i) ==
    /\ tasks[i].st = "proxy"
    /\ \E o \in Outcomes(req.view, Budget) :
        LET r == fetchBeds24ViaProxy(o)
            ts == Ranked([tasks EXCEPT ![i] =
                              IF r.threw THEN TaskFails(@, r.error)
                              ELSE Received(TaskReturns(@, r), o)], i)
        IN  /\ tasks' = ts
            /\ HandlerContinues(ts)
    /\ UNCHANGED <<useDirectApi, req, nUpstream, writeTokenCache, call, result, authVars,
                   sideVars, rateLimitInfo>>

\* the 50 ms delay of walk i is over: the loop condition is evaluated, and
\* the next page is requested or the walk returns
DelayElapses(i) ==
    /\ tasks[i].st = "delay"
    /\ IF LoopContinues(tasks[i])
       THEN /\ tasks' = [tasks EXCEPT ![i] = CallFetchBeds24(@, useDirectApi)]
            /\ nUpstream' = nUpstream + 1
            /\ UNCHANGED <<response, nResponses>>
       ELSE LET ts == Ranked([tasks EXCEPT ![i].st = "done"], i) IN
            /\ tasks' = ts
            /\ HandlerContinues(ts)
            /\ UNCHANGED nUpstream
    /\ UNCHANGED <<useDirectApi, req, writeTokenCache, call, result, authVars,
                   sideVars, rateLimitInfo>>

\* the request is over: it has been answered and none of its fetches is
\* outstanding any more; its state is dropped
Complete ==
    /\ req.view # "none"
    /\ nResponses > 0
    /\ AllSettled(tasks)
    /\ req' = Request("none")
    /\ tasks' = <<>>
    /\ response' = NoResponse
    /\ nResponses' = 0
    /\ nUpstream' = 0
    /\ UNCHANGED <<useDirectApi, writeTokenCache, call, result, authVars, sideVars, rateLimitInfo>>

\* the five-minute buffer and the one-minute margin of getWriteToken
CacheBuffer == 300000
SafetyMargin == 60000

\* the clock of the process advances in steps of one minute
Minute == SafetyMargin

\* a minute passes
MinutePasses ==
    /\ now < MaxClock * Minute
    /\ now' = now + Minute
    /\ UNCHANGED <<handlerVars, call, result, tokenCalls, issued, otpDoc,
                   verifies, compared>>

Next ==
    \/ \E view \in Views : Receive(view)
    \/ Complete
    \/ \E i \in 1..Len(tasks) : DirectResponds(i)
    \/ \E i \in 1..Len(tasks) : ProxyResponds(i)
    \/ \E i \in 1..Len(tasks) : DelayElapses(i)

Spec == Init /\ [][Next]_vars

\* The same handlers against a direct API that puts rate-limit headers on
\* its responses, for a single fetch and for a walk, with a running clock
RateViews == {"booking", "range"}

InitRate ==
    /\ useDirectApi = TRUE
    /\ req = Request("none")
    /\ tasks = <<>>
    /\ response = NoResponse
    /\ nResponses = 0
    /\ nUpstream = 0
    /\ writeTokenCache = [token |-> Null, expiresAt |-> 0]
    /\ rateLimitInfo = InitialRateLimit
    /\ upstreamHeaders = RateHeaders
    /\ call = NoCall
    /\ result = NotEvaluated
    /\ InitAuth
    /\ InitPush
    /\ InitSessions
    /\ InitCache

NextRate ==
    \/ \E view \in RateViews : Receive(view)
    \/ Complete
    \/ \E i \in 1..Len(tasks) : DirectResponds(i)
    \/ \E i \in 1..Len(tasks) : ProxyResponds(i)
    \/ \E i \in 1..Len(tasks) : DelayElapses(i)
    \/ MinutePasses

SpecRate == InitRate /\ [][NextRate]_vars

-----------------------------------------------------------------------------
(* Dates: the Date object of the JavaScript runtime.  A time value is
   counted in hours since 1970-01-01T00:00Z; every instant and every zone
   offset of the model is a whole number of hours. *)

\* the offset of TIMEZONE = 'Asia/Dhaka', also written '+06:00' in the code
DhakaOffset == 6

\* parseInt(req.query.days) || 7
DefaultDays == 7

IsLeapYear(y) == y % 4 = 0 /\ (y % 100 # 0 \/ y % 400 = 0)

DaysInMonth(y, m) ==
    CASE m \in {4, 6, 9, 11} -> 30
      [] m = 2 -> IF IsLeapYear(y) THEN 29 ELSE 28
      [] OTHER -> 31

LeapDaysBefore(y) == (y - 1) \div 4 - (y - 1) \div 100 + (y - 1) \div 400

\* the day number of January 1st of year y
DayFromYear(y) == 365 * (y - 1970) + LeapDaysBefore(y) - LeapDaysBefore(1970)

RECURSIVE DaysBeforeMonth(_, _)
DaysBeforeMonth(y, m) ==
    IF m = 1 THEN 0 ELSE DaysBeforeMonth(y, m - 1) + DaysInMonth(y, m - 1)

\* the year, month (1..12) and day of month of a day number
YearFromDay(n) ==
    CHOOSE y \in (1970 + n \div 366)..(1970 + n \div 365) :
        DayFromYear(y) <= n /\ n < DayFromYear(y + 1)

MonthFromDay(n) ==
    LET y == YearFromDay(n) IN
    CHOOSE m \in 1..12 :
        /\ DayFromYear(y) + DaysBeforeMonth(y, m) <= n
        /\ n < DayFromYear(y) + DaysBeforeMonth(y, m) + DaysInMonth(y, m)

DateFromDay(n) ==
    n - DayFromYear(YearFromDay(n)) - DaysBeforeMonth(YearFromDay(n), MonthFromDay(n)) + 1

\* MakeDay(year, month, date): month counts from 0 and may lie outside
\* 0..11, date may lie outside the month; both carry over
MakeDay(year, month, date) ==
    LET ym == year + month \div 12
        mn == month % 12
    IN  DayFromYear(ym) + DaysBeforeMonth(ym, mn + 1) + date - 1

\* the zone of the executing host: its standard offset and the interval of
\* instants in which its clocks are set one hour ahead
Zone(name, std, dstFrom, dstTo) ==
    [name |-> name, std |-> std, dstFrom |-> dstFrom, dstTo |-> dstTo]

\* the offset of the host zone at a time value: of an instant (isUTC), or
\* of a local time, which inside a transition takes the offset before it
LocalTZA(host, t, isUTC) ==
    LET u == IF isUTC THEN t ELSE t - host.std - 1
    IN  host.std + (IF host.dstFrom <= u /\ u < host.dstTo THEN 1 ELSE 0)

LocalTime(host, t) == t + LocalTZA(host, t, TRUE)
UTC(host, t) == t - LocalTZA(host, t, FALSE)

Day(t) == t \div 24
TimeWithinDay(t) == t % 24

Digit(n) ==
    CASE n = 0 -> "0" [] n = 1 -> "1" [] n = 2 -> "2" [] n = 3 -> "3"
      [] n = 4 -> "4" [] n = 5 -> "5" [] n = 6 -> "6" [] n = 7 -> "7"
      [] n = 8 -> "8" [] n = 9 -> "9"

\* YYYY-MM-DD, as the en-CA locale writes a date
IsoDate(y, m, d) ==
    <<Digit(y \div 1000), Digit((y \div 100) % 10), Digit((y \div 10) % 10),
      Digit(y % 10), "-", Digit(m \div 10), Digit(m % 10), "-",
      Digit(d \div 10), Digit(d % 10)>>

\* new Date(s + 'T00:00:00+06:00') for s = YYYY-MM-DD
ParseDhakaMidnight(s) ==
    24 * MakeDay(DigitPrefix(SubSeq(s, 1, 4), 0),
                 DigitPrefix(SubSeq(s, 6, 7), 0) - 1,
                 DigitPrefix(SubSeq(s, 9, 10), 0))
    - DhakaOffset

\* date.toLocaleDateString('en-CA', {timeZone: TIMEZONE})
toLocaleDateString(t) ==
    LET n == Day(t + DhakaOffset)
    IN  IsoDate(YearFromDay(n), MonthFromDay(n), DateFromDay(n))

getDate(host, t) == DateFromDay(Day(LocalTime(host, t)))
getMonth(host, t) == MonthFromDay(Day(LocalTime(host, t))) - 1

\* date.setDate(dt): the day of the month is replaced in the host's local time
setDate(host, t, dt) ==
    LET local == LocalTime(host, t)
        n == Day(local)
    IN  UTC(host, 24 * MakeDay(YearFromDay(n), MonthFromDay(n) - 1, dt)
                  + TimeWithinDay(local))

\* date.setMonth(month): the month is replaced in the host's local time
setMonth(host, t, month) ==
    LET local == LocalTime(host, t)
        n == Day(local)
    IN  UTC(host, 24 * MakeDay(YearFromDay(n), month, DateFromDay(n))
                  + TimeWithinDay(local))

\* parseInt(req.query.days) || 7
DaysOrDefault(days) ==
    LET n == IF days.t = "str" THEN ParseFloatString(days.s) ELSE NaN
    IN  IF n.nan \/ n.n = 0 THEN DefaultDays ELSE n.n

\* the window of GET /api/calendar: start, days and the end date it computes
CalendarRange(host, start, days) ==
    LET startDate == ParseDhakaMidnight(start)
        n == DaysOrDefault(days)
    IN  [start |-> start,
         end |-> toLocaleDateString(setDate(host, startDate, getDate(host, startDate) + n)),
         days |-> n]

\* departureFrom and departureTo of the past walk of the default listing
PastWindow(host, todayStr) ==
    LET todayDate == ParseDhakaMidnight(todayStr)
        oneMonthAgo == setMonth(host, todayDate, getMonth(host, todayDate) - 1)
    IN  [departureFrom |-> toLocaleDateString(oneMonthAgo), departureTo |-> todayStr]

-----------------------------------------------------------------------------
(* Query parameters of an upstream request *)

NullValue == [t |-> "null", n |-> 0, s |-> <<>>]
True == [t |-> "bool", n |-> 1, s |-> <<>>]

RECURSIVE Decimal(_)
Decimal(n) == IF n < 10 THEN <<Digit(n)>> ELSE Decimal(n \div 10) \o <<Digit(n % 10)>>

\* the string searchParams.append(key, value) stores for a value
StringOf(v) ==
    CASE v.t = "str" -> v.s
      [] v.t = "num" -> Decimal(v.n)
      [] v.t = "bool" -> <<"t", "r", "u", "e">>
      [] v.t = "null" -> <<"n", "u", "l", "l">>
      [] OTHER -> <<"u", "n", "d", "e", "f", "i", "n", "e", "d">>

\* a test that lets null and the empty string through
SendableUnlessUndefined(v) == v.t # "undef"

\* value !== undefined && value !== null && value !== ''
Sendable(v) == v.t \notin {"undef", "null"} /\ ~(v.t = "str" /\ v.s = <<>>)

\* Object.entries(params).forEach(...): the pairs appended to url.searchParams
RECURSIVE AppendParams(_, _, _)
AppendParams(query, entries, dropped) ==
    IF entries = <<>> THEN query
    ELSE LET e == Head(entries)
         IN  AppendParams(IF Sendable(e.value) /\ e.key \notin dropped
                          THEN Append(query, [key |-> e.key, value |-> StringOf(e.value)])
                          ELSE query,
                          Tail(entries), dropped)

\* the URL fetchBeds24Direct requests
DirectUrl(endpoint, params, method) ==
    [host |-> "BEDS24_API_URL", path |-> endpoint,
     query |-> IF method = "GET" THEN AppendParams(<<>>, params, {}) ELSE <<>>]

\* the URL fetchBeds24ViaProxy requests: the address by endpoint, then the
\* parameters, for every method
ProxyUrl(endpoint, params, method) ==
    LET proxyUrl ==
            CASE endpoint = "bookings" -> [path |-> "getBookings", query |-> <<>>]
              [] endpoint = "rooms" -> [path |-> "getRooms", query |-> <<>>]
              [] OTHER -> [path |-> "",
                           query |-> <<[key |-> "endpoint", value |-> <<endpoint>>]>>]
    IN  [host |-> "BEDS24_PROXY_FALLBACK", path |-> proxyUrl.path,
         query |-> AppendParams(proxyUrl.query, params, {"propertyId"})]

-----------------------------------------------------------------------------
(* The helper computations taken alone: the date windows, the merge and the
   serialisation of parameters, each applied to inputs drawn from small sets *)

Hosts ==
    { Zone("UTC", 0, 0, 0),
      Zone("Asia/Dhaka", 6, 0, 0),
      Zone("Pacific/Honolulu", 0 - 10, 0, 0),
      Zone("Pacific/Kiritimati", 14, 0, 0),
      Zone("America/New_York", 0 - 5,
           24 * MakeDay(2024, 2, 10) + 7, 24 * MakeDay(2024, 10, 3) + 6) }

CivilDates ==
    { IsoDate(2023, 12, 31), IsoDate(2024, 1, 1), IsoDate(2024, 1, 31),
      IsoDate(2024, 2, 28), IsoDate(2024, 2, 29), IsoDate(2024, 3, 1),
      IsoDate(2024, 3, 9), IsoDate(2024, 3, 10), IsoDate(2024, 3, 31),
      IsoDate(2024, 5, 1), IsoDate(2024, 5, 31), IsoDate(2024, 11, 3) }

DayCounts == {Missing} \cup {Str(Decimal(n)) : n \in 1..MaxDays}

ParamKeys == <<"propertyId", "arrival", "filter">>

ParamValues ==
    {Missing, NullValue, Str(<<>>), Str(<<"c", "u", "r", "r", "e", "n", "t">>),
     Num(279646)}

Endpoints == {"bookings", "rooms", "properties"}

Calls ==
    {[fn |-> "calendarRange", host |-> h, start |-> d, days |-> n] :
        h \in Hosts, d \in CivilDates, n \in DayCounts}
    \cup {[fn |-> "pastWindow", host |-> h, today |-> d] : h \in Hosts, d \in CivilDates}
    \cup {[fn |-> "merge", records |-> l] : l \in SeqsUpTo(MergeRecords, MaxMerge)}
    \cup UNION {{[fn |-> "setMerge", today |-> d, current |-> SubSeq(l, 1, c[1]),
                  arrivals |-> SubSeq(l, c[1] + 1, c[2]),
                  departures |-> SubSeq(l, c[2] + 1, Len(l))] :
                    d \in Dates,
                    c \in {x \in (0..Len(l)) \X (0..Len(l)) : x[1] <= x[2]}} :
                 l \in SeqsUpTo(MergeRecords, MaxMerge)}
    \cup {[fn |-> "url", endpoint |-> e, method |-> m,
           params |-> [i \in 1..Len(ParamKeys) |-> [key |-> ParamKeys[i], value |-> v[i]]]] :
            e \in Endpoints, m \in {"GET", "POST"},
            v \in [1..Len(ParamKeys) -> ParamValues]}

Evaluated(value) == [done |-> TRUE, value |-> value]

\* a walk that has returned these records
ReturnedWalk(label, records) ==
    [Walk(label, 1) EXCEPT !.allBookings = records, !.st = "done"]

\* a single fetch that has returned these records
ReturnedFetch(label, records) ==
    [Fetch(label) EXCEPT !.value = ArrV(records), !.st = "done"]

\* the data of the default listing whose walks returned past and future
ListingData(past, future) ==
    GetBookings(Request("getBookings"),
                <<ReturnedWalk("past", past), ReturnedWalk("future", future)>>).body.data

\* the data of the calendar whose fetches returned these lists
CalendarData(arrivals, departures, current) ==
    Calendar(Request("calendar"),
             <<ReturnedWalk("arrivals", arrivals), ReturnedWalk("departures", departures),
               ReturnedFetch("current", current)>>).body.data

\* const seen = new Set(); allBookings.filter(b => { if (seen.has(b.id))
\* return false; seen.add(b.id); return true; })
RECURSIVE UniqueBookings(_, _)
UniqueBookings(list, seen) ==
    IF list = <<>> THEN <<>>
    ELSE IF Head(list).id \in seen THEN UniqueBookings(Tail(list), seen)
    ELSE <<Head(list)>> \o UniqueBookings(Tail(list), seen \cup {Head(list).id})

\* GET /dashboard/bookings of src/index.js: the data of its response
DashboardBookings(currentData, futureData) ==
    NotCancelled(UniqueBookings(currentData \o futureData, {}))

\* GET /dashboard/data of v4.0: stats and data of its response
DashboardDataV4(current, arrivals, departures, today) ==
    LET uniqueBookings == UniqueBookings(current \o arrivals \o departures, {})
    IN  [stats |-> [occupied |-> Len(NotCancelled(current)),
                    checkInsToday |->
                        Len(SelectSeq(arrivals, LAMBDA b :
                            b.arrival = today /\ b.status # "cancelled")),
                    checkOutsToday |->
                        Len(SelectSeq(departures, LAMBDA b : b.departure = today)),
                    totalActive |-> Len(NotCancelled(uniqueBookings))],
         data |-> NotCancelled(uniqueBookings)]

InitHelpers ==
    /\ useDirectApi = TRUE
    /\ req = Request("none")
    /\ tasks = <<>>
    /\ response = NoResponse
    /\ nResponses = 0
    /\ nUpstream = 0
    /\ writeTokenCache = [token |-> Null, expiresAt |-> 0]
    /\ rateLimitInfo = InitialRateLimit
    /\ upstreamHeaders = {NoRateHeaders}
    /\ call \in Calls
    /\ result = NotEvaluated
    /\ InitAuth
    /\ InitPush
    /\ InitSessions
    /\ InitCache

\* GET /api/calendar computes its window
EvalCalendarRange ==
    /\ call.fn = "calendarRange" /\ ~result.done
    /\ result' = Evaluated(CalendarRange(call.host, call.start, call.days))
    /\ UNCHANGED <<handlerVars, call, authVars>>

\* the default GET /getBookings computes the window of its past walk
EvalPastWindow ==
    /\ call.fn = "pastWindow" /\ ~result.done
    /\ result' = Evaluated(PastWindow(call.host, call.today))
    /\ UNCHANGED <<handlerVars, call, authVars>>

\* the merges fold a list supplied once, and supplied as two of their sources
EvalMerge ==
    /\ call.fn = "merge" /\ ~result.done
    /\ result' = Evaluated(
            [listingOnce |-> ListingData(call.records, <<>>),
             listingTwice |-> ListingData(call.records, call.records),
             calendarOnce |-> CalendarData(call.records, <<>>, <<>>),
             calendarTwice |-> CalendarData(call.records, call.records, <<>>)])
    /\ UNCHANGED <<handlerVars, call, authVars>>

\* fetchBeds24Direct and fetchBeds24ViaProxy build the URL of their request
EvalUrl ==
    /\ call.fn = "url" /\ ~result.done
    /\ result' = Evaluated(
            [direct |-> DirectUrl(call.endpoint, call.params, call.method),
             proxy |-> ProxyUrl(call.endpoint, call.params, call.method)])
    /\ UNCHANGED <<handlerVars, call, authVars>>

\* the older dashboards merge their sources through a Set of seen ids
EvalSetMerge ==
    /\ call.fn = "setMerge" /\ ~result.done
    /\ result' = Evaluated(
            [bookings |-> DashboardBookings(call.current, call.arrivals),
             dashboard |-> DashboardDataV4(call.current, call.arrivals,
                                           call.departures, call.today)])
    /\ UNCHANGED <<handlerVars, call, authVars>>

NextHelpers ==
    EvalCalendarRange \/ EvalPastWindow \/ EvalMerge \/ EvalUrl \/ EvalSetMerge

SpecHelpers == InitHelpers /\ [][NextHelpers]_vars

-----------------------------------------------------------------------------
(* The write credential: getWriteToken and its cache.  Times are in
   milliseconds; the clock advances in steps of one minute. *)

\* data.expiresIn of a refresh response, in seconds
ExpiresIn == {300, 420, 600}

\* the k-th token the authentication endpoint issues
TokenName(k) == "T" \o ToString(k)

\* a cache test that forgets the five minutes
CacheValidWithoutBuffer(cache, t) == cache.token # Null /\ cache.expiresAt > t

\* writeTokenCache.token && writeTokenCache.expiresAt > now + 300000
CacheValid(cache, t) == cache.token # Null /\ cache.expiresAt > t + CacheBuffer

\* { token: data.token, expiresAt: now + (data.expiresIn * 1000) - 60000 }
CacheEntry(token, t, expiresIn) ==
    [token |-> token, expiresAt |-> t + (expiresIn * 1000) - SafetyMargin]

Refreshing == {c \in Callers : tokenCalls[c].st = "refreshing"}

\* getWriteToken is invoked: it reads the clock and the cache, and returns
\* the cached token or sends the refresh request
GetWriteToken(c) ==
    /\ tokenCalls[c].st # "refreshing"
    /\ IF CacheValid(writeTokenCache, now)
       THEN tokenCalls' = [tokenCalls EXCEPT ![c] =
                [IdleCall EXCEPT !.st = "returned", !.now = now,
                                 !.seen = writeTokenCache,
                                 !.value = writeTokenCache.token]]
       ELSE /\ Len(issued) + Cardinality(Refreshing) < MaxRefreshes
            /\ tokenCalls' = [tokenCalls EXCEPT ![c] =
                [IdleCall EXCEPT !.st = "refreshing", !.now = now,
                                 !.seen = writeTokenCache, !.requests = 1]]
    /\ UNCHANGED <<requestVars, writeTokenCache, call, result, now, issued,
                   otpDoc, verifies, compared>>

\* the authentication endpoint answers without a token: return null
RefreshRefused(c) ==
    /\ tokenCalls[c].st = "refreshing"
    /\ tokenCalls' = [tokenCalls EXCEPT ![c].st = "returned"]
    /\ UNCHANGED <<requestVars, writeTokenCache, call, result, now, issued,
                   otpDoc, verifies, compared>>

\* the authentication endpoint answers with a token it issued at some minute
\* since the call, valid for expiresIn seconds: the token is cached and returned
RefreshGranted(c) ==
    /\ tokenCalls[c].st = "refreshing"
    /\ \E e \in ExpiresIn, m \in 0..MaxClock :
        LET k == tokenCalls[c]
            at == k.now + m * Minute
            token == TokenName(Len(issued) + 1)
        IN  /\ at <= now
            /\ writeTokenCache' = CacheEntry(token, k.now, e)
            /\ issued' = Append(issued, [token |-> token, expiry |-> at + e * 1000])
            /\ tokenCalls' = [tokenCalls EXCEPT ![c] =
                    [k EXCEPT !.st = "returned", !.value = token, !.expiresIn = e,
                              !.cached = writeTokenCache']]
    /\ UNCHANGED <<requestVars, call, result, now, otpDoc, verifies, compared>>

NextToken ==
    \/ \E c \in Callers : GetWriteToken(c)
    \/ \E c \in Callers : RefreshRefused(c)
    \/ \E c \in Callers : RefreshGranted(c)
    \/ MinutePasses

SpecToken == Init /\ [][NextToken]_vars

-----------------------------------------------------------------------------
(* One-time passcodes: POST /auth/send-otp and /auth/verify-otp, and their
   /auth/admin twins, which run the same steps on the document admin_<email>.
   The clock of this part advances in steps of five minutes. *)

OtpLifetime == 600000
MaxAttempts == 3

FiveMinutes == OtpLifetime \div 2

\* the k-th passcode drawn for the email: six digits
Code(k) == ToString(100000 + k)

\* a code that is never drawn
WrongCode == "000000"

\* the codes a client may send: any passcode drawn so far, or a wrong one
Guesses == {Code(k) : k \in 1..Len(compared)} \cup {WrongCode}

\* send-otp: otpCollection.doc(email).set({otp, expiresAt, attempts: 0, ...})
SendOtp ==
    /\ Len(compared) < MaxIssues
    /\ otpDoc' = [exists |-> TRUE, otp |-> Code(Len(compared) + 1),
                  expiresAt |-> now + OtpLifetime, attempts |-> 0,
                  issue |-> Len(compared) + 1]
    /\ compared' = Append(compared, 0)
    /\ UNCHANGED <<handlerVars, call, result, now, tokenCalls, issued, verifies>>

\* a client posts a code: the handler asks Firestore for the document
VerifyOtp(v) ==
    /\ verifies[v].st = "idle"
    /\ verifies[v].sent < MaxGuesses
    /\ \E otp \in Guesses :
        verifies' = [verifies EXCEPT ![v] =
            [IdleVerify EXCEPT !.st = "get", !.otp = otp, !.sent = verifies[v].sent + 1]]
    /\ UNCHANGED <<handlerVars, call, result, now, tokenCalls, issued, otpDoc, compared>>

\* res.status(400).json({success: false, error}) or the success response
Responds(k, status, error) ==
    [k EXCEPT !.st = "idle", !.status = status, !.error = error, !.write = "none"]

\* the handler awaits a write of the document before it responds
Awaits(k, write, status, error) ==
    [k EXCEPT !.st = "write", !.write = write, !.status = status, !.error = error]

\* if (attempts >= 3)
TooMany(attempts) == attempts >= MaxAttempts

\* get() resolves with the document as it is now, and the handler runs up to
\* its next await: not found, expired, wrong code, or right code
GetResolves(v) ==
    LET k == verifies[v]
        otpData == otpDoc
        attempts == otpData.attempts + 1
    IN
    /\ k.st = "get"
    /\ IF ~otpData.exists
       THEN /\ verifies' = [verifies EXCEPT ![v] = Responds(k, 400, "No OTP found")]
            /\ UNCHANGED compared
       ELSE IF now > otpData.expiresAt
       THEN /\ verifies' = [verifies EXCEPT ![v] = Awaits(k, "delete", 400, "OTP expired")]
            /\ UNCHANGED compared
       ELSE IF otpData.otp # k.otp
       THEN /\ compared' = [compared EXCEPT ![otpData.issue] = @ + 1]
            /\ verifies' = [verifies EXCEPT ![v] =
                    IF TooMany(attempts)
                    THEN Awaits(k, "delete", 400, "Too many attempts")
                    ELSE [Awaits(k, "update", 400, "Invalid OTP")
                             EXCEPT !.attempts = attempts]]
       ELSE /\ verifies' = [verifies EXCEPT ![v] = Awaits(k, "delete", 200, Undef)]
            /\ UNCHANGED compared
    /\ UNCHANGED <<handlerVars, call, result, now, tokenCalls, issued, otpDoc>>

\* Firestore applies the awaited write and the handler responds; update() of
\* a document that is gone rejects, and the catch answers 500
WriteApplied(v) ==
    LET k == verifies[v] IN
    /\ k.st = "write"
    /\ IF k.write = "delete"
       THEN /\ otpDoc' = NoDoc
            /\ verifies' = [verifies EXCEPT ![v] = Responds(k, k.status, k.error)]
       ELSE IF otpDoc.exists
       THEN /\ otpDoc' = [otpDoc EXCEPT !.attempts = k.attempts]
            /\ verifies' = [verifies EXCEPT ![v] = Responds(k, k.status, k.error)]
       ELSE /\ otpDoc' = otpDoc
            /\ verifies' = [verifies EXCEPT ![v] =
                    Responds(k, 500, "No document to update")]
    /\ UNCHANGED <<handlerVars, call, result, now, tokenCalls, issued, compared>>

\* five minutes pass
TimePasses ==
    /\ now < MaxClock * FiveMinutes
    /\ now' = now + FiveMinutes
    /\ UNCHANGED <<handlerVars, call, result, tokenCalls, issued, otpDoc,
                   verifies, compared>>

NextOtp ==
    \/ SendOtp
    \/ \E v \in Verifiers : VerifyOtp(v)
    \/ \E v \in Verifiers : GetResolves(v)
    \/ \E v \in Verifiers : WriteApplied(v)
    \/ TimePasses

SpecOtp == Init /\ [][NextOtp]_vars

-----------------------------------------------------------------------------
(* Vocabulary of the properties *)

Answered(view) == req.view = view /\ response.status = 200

DefaultListing == req.view = "getBookings" /\ ~FilteredListing(req)

\* the views that merge several result sets by id
MergingView == req.view \in {"calendar", "dashboard"} \/ DefaultListing

\* the records a fetch has handed to its handler
RecordsOfTask(t) ==
    IF t.kind = "walk" THEN t.allBookings
    ELSE IF t.st = "done" /\ t.value.t = "arr" THEN t.value.a ELSE <<>>

\* the records of all fetches of the request, in fetch-list order
RECURSIVE Concatenated(_)
Concatenated(ts) ==
    IF ts = <<>> THEN <<>> ELSE RecordsOfTask(Head(ts)) \o Concatenated(Tail(ts))

HasId(list, id) == \E k \in 1..Len(list) : list[k].id = id

\* the fetches of the request, by position in the fetch list, that
\* returned a record with this id
SourcesOf(id) == {i \in 1..Len(tasks) : HasId(RecordsOfTask(tasks[i]), id)}

LastSourceOf(id) == CHOOSE i \in SourcesOf(id) : \A j \in SourcesOf(id) : j <= i

Minimum(a, b) == IF a <= b THEN a ELSE b

\* the first page whose response reported no next page; beyond every cap
\* when all fetched pages reported one
FirstLastPage(t) ==
    IF \E j \in 1..Len(t.nexts) : ~t.nexts[j]
    THEN CHOOSE j \in 1..Len(t.nexts) :
            ~t.nexts[j] /\ \A k \in 1..(j - 1) : t.nexts[k]
    ELSE t.maxPages + 1

-----------------------------------------------------------------------------
(* C1: a walk of fetchAllBookingPages never issues more than maxPages page
   requests, and a walk that has returned has issued exactly
   min(maxPages, k) of them, k being the first page whose response did not
   report nextPageExists === true. *)
C1_PageRequests ==
    \A i \in 1..Len(tasks) :
        tasks[i].kind = "walk" =>
            /\ tasks[i].calls <= tasks[i].maxPages
            /\ tasks[i].st = "done" =>
                tasks[i].calls = Minimum(tasks[i].maxPages, FirstLastPage(tasks[i]))

\* a walk returned at its cap of several pages, every page reporting a next one
C1_Witness ==
    \E i \in 1..Len(tasks) :
        /\ tasks[i].kind = "walk" /\ tasks[i].st = "done"
        /\ tasks[i].maxPages >= 2
        /\ tasks[i].calls = tasks[i].maxPages
        /\ \A j \in 1..Len(tasks[i].nexts) : tasks[i].nexts[j]

(* C2: the data list of a merging view (calendar, default listing,
   dashboard) holds no two records with the same id. *)
C2_NoDuplicateIds ==
    (MergingView /\ response.status = 200) =>
        \A j, k \in 1..Len(response.body.data) :
            j # k => response.body.data[j].id # response.body.data[k].id

\* the default listing answered one record for an id both walks returned
C2_Witness ==
    /\ DefaultListing /\ response.status = 200
    /\ Len(response.body.data) = 1
    /\ tasks[1].allBookings # <<>> /\ tasks[2].allBookings # <<>>

\* the lists a cancellation-filtering view returns
FilteredLists ==
    CASE req.view = "overview" ->
            <<response.body.current, response.body.arrivals, response.body.departures>>
      [] req.view = "calendar" -> <<response.body.data>>
      [] req.view = "movements" ->
            <<response.body.checkIns.data, response.body.checkOuts.data>>
      [] req.view = "housekeeping" ->
            <<response.body.departures, response.body.arrivals, response.body.stayovers>>
      [] req.view = "revenue" -> <<response.body.bookings>>
      [] req.view = "dashboard" -> <<response.body.data>>
      [] OTHER -> <<>>

(* C3: no list returned by a cancellation-filtering view holds a record
   whose status is 'cancelled'. *)
C3_NoCancelled ==
    response.status = 200 =>
        \A l \in 1..Len(FilteredLists) :
            \A k \in 1..Len(FilteredLists[l]) :
                FilteredLists[l][k].status # "cancelled"

\* a filtering view answered although the upstream returned a cancelled record
C3_Witness ==
    /\ response.status = 200
    /\ FilteredLists # <<>>
    /\ \E k \in 1..Len(Concatenated(tasks)) :
            Concatenated(tasks)[k].status = "cancelled"

(* C4: in a merging view, the returned record of an id that occurs in more
   than one source is a version held by the source that comes last in the
   fetch-list order among those sources. *)
C4_LastSourceWins ==
    (MergingView /\ response.status = 200) =>
        \A k \in 1..Len(response.body.data) :
            LET b == response.body.data[k]
                last == RecordsOfTask(tasks[LastSourceOf(b.id)])
            IN  Cardinality(SourcesOf(b.id)) > 1 =>
                    \E j \in 1..Len(last) : last[j] = b

\* fetch t holds the upstream's error payload as if it were data
HoldsErrorPayload(t) ==
    \/ t.value.t = "obj" /\ t.value.a[1].error # Undef
    \/ \E k \in 1..Len(t.allBookings) : t.allBookings[k].error # Undef

(* C5: a fetchBeds24 call whose upstream payload is an error payload
   (success === false or an error message) fails: no fetch comes back
   holding such a payload as its result. *)
C5_ErrorPayloadRejects ==
    \A i \in 1..Len(tasks) : HoldsErrorPayload(tasks[i]) => tasks[i].st = "failed"

AllOrNothingView ==
    req.view \in {"overview", "calendar", "movements", "housekeeping", "revenue",
                  "search", "booking", "getBookings", "range"}

(* C6: in an all-or-nothing view a rejected fetch gives exactly one
   response, status 500 with body {success: false, error: message} and
   nothing else; and a finished request has been answered exactly once. *)
C6_AllOrNothing ==
    AllOrNothingView =>
        /\ nResponses <= 1
        /\ AllSettled(tasks) => nResponses = 1
        /\ SomeFailed(tasks) =>
            /\ nResponses = 1
            /\ response.status = 500
            /\ DOMAIN response.body = {"success", "error"}
            /\ response.body.success = FALSE
            /\ \E i \in 1..Len(tasks) :
                    tasks[i].st = "failed" /\ response.body.error = tasks[i].error

\* one fetch was rejected after another had returned records
C6_Witness ==
    /\ AllOrNothingView
    /\ SomeFailed(tasks)
    /\ Concatenated(tasks) # <<>>
    /\ response.status = 500

\* the request lacks a required parameter
LacksRequired ==
    \/ req.view \in {"range", "revenue"} /\ ~(Truthy(req.from) /\ Truthy(req.to))
    \/ req.view = "search" /\ ~Truthy(req.q) /\ ~Truthy(req.checkIn)

(* C7: a range or revenue request without both from and to, and a search
   request with neither q nor checkIn, is answered 400 with
   {success: false, error} and no upstream request is issued for it. *)
C7_ValidationFirst ==
    LacksRequired =>
        /\ response.status = 400
        /\ response.body.success = FALSE
        /\ "error" \in DOMAIN response.body
        /\ nUpstream = 0
        /\ tasks = <<>>

\* a revenue request with from but without to was refused
C7_Witness ==
    /\ req.view = "revenue" /\ Truthy(req.from) /\ ~Truthy(req.to)
    /\ response.status = 400

(* C8: the stayovers of GET /api/housekeeping for date D are exactly the
   non-cancelled current-occupancy records whose departure differs from D,
   in upstream order. *)
C8_Stayovers ==
    Answered("housekeeping") =>
        response.body.stayovers
            = SelectSeq(RecordsOfTask(tasks[1]),
                        LAMBDA b : b.status # "cancelled" /\ b.departure # req.date)

\* current held a guest leaving on D and a guest staying
C8_Witness ==
    /\ Answered("housekeeping")
    /\ \E k \in 1..Len(RecordsOfTask(tasks[1])) :
            /\ RecordsOfTask(tasks[1])[k].departure = req.date
            /\ RecordsOfTask(tasks[1])[k].status # "cancelled"
    /\ response.body.stayovers # <<>>

(* C9: summary.stayovers of GET /api/housekeeping equals the length of the
   stayovers list of the same response. *)
C9_StayoverCount ==
    Answered("housekeeping") =>
        response.body.summary.stayovers = Len(response.body.stayovers)

\* a string that is a number as a whole: digits only
RECURSIVE AllDigits(_)
AllDigits(s) == s = <<>> \/ (IsDigit(Head(s)) /\ AllDigits(Tail(s)))

\* the amount a price or deposit stands for: its number when it is numeric
\* (a number, or a string of digits, leading spaces allowed), otherwise 0
NumericAmount(v) ==
    CASE v.t = "num" -> v.n
      [] v.t = "str" /\ SkipSpaces(v.s) # <<>> /\ AllDigits(SkipSpaces(v.s)) ->
            DigitPrefix(SkipSpaces(v.s), 0)
      [] OTHER -> 0

RECURSIVE SumAmounts(_, _)
SumAmounts(list, field) ==
    IF list = <<>> THEN 0
    ELSE NumericAmount(Head(list)[field]) + SumAmounts(Tail(list), field)

(* C10: over the non-cancelled records of the walk, totalPrice and
   totalDeposit of GET /api/revenue are the sums of the numeric price and
   deposit values, a missing or non-numeric value counting as 0;
   bookingCount is the number of those records; and
   outstanding = totalPrice - totalDeposit. *)
C10_RevenueTotals ==
    Answered("revenue") =>
        LET kept == SelectSeq(tasks[1].allBookings, LAMBDA b : b.status # "cancelled")
            totals == response.body.totals
        IN  /\ totals.totalPrice = SumAmounts(kept, "price")
            /\ totals.totalDeposit = SumAmounts(kept, "deposit")
            /\ totals.bookingCount = Len(kept)
            /\ totals.outstanding = totals.totalPrice - totals.totalDeposit

\* the records of list whose status is not 'cancelled', in the list's order
Kept(list) == SelectSeq(list, LAMBDA b : b.status # "cancelled")

(* C11: in GET /api/overview and GET /api/movements each returned list is
   the non-cancelled records of its own query's result, in upstream order,
   whatever the other queries returned (a booking two queries return is in
   both lists and in both counts), and each reported count is the length of
   its list. *)
C11_ListsPerQuery ==
    /\ Answered("overview") =>
        /\ response.body.current = Kept(RecordsOfTask(tasks[1]))
        /\ response.body.arrivals = Kept(RecordsOfTask(tasks[2]))
        /\ response.body.departures = Kept(RecordsOfTask(tasks[3]))
        /\ response.body.stats.occupied = Len(response.body.current)
        /\ response.body.stats.checkIns = Len(response.body.arrivals)
        /\ response.body.stats.checkOuts = Len(response.body.departures)
    /\ Answered("movements") =>
        /\ response.body.checkIns.data = Kept(RecordsOfTask(tasks[1]))
        /\ response.body.checkOuts.data = Kept(RecordsOfTask(tasks[2]))
        /\ response.body.checkIns.count = Len(response.body.checkIns.data)
        /\ response.body.checkOuts.count = Len(response.body.checkOuts.data)

\* the overview answered a booking that arrivals and departures both returned
C11_Witness ==
    /\ Answered("overview")
    /\ \E j \in 1..Len(response.body.arrivals) :
        \E k \in 1..Len(response.body.departures) :
            response.body.arrivals[j].id = response.body.departures[k].id
    /\ response.body.stats.checkIns = 1
    /\ response.body.stats.checkOuts = 1

\* how many records of list carry this id
Occurrences(list, id) == Cardinality({k \in 1..Len(list) : list[k].id = id})

(* C12: the default GET /getBookings returns exactly one record for every
   id that occurs in either of its two walks and GET /api/search returns
   the records of its walk as they came, cancelled records included; count
   is the length of the returned data. *)
C12_KeepsCancelled ==
    /\ (DefaultListing /\ response.status = 200) =>
        LET walked == tasks[1].allBookings \o tasks[2].allBookings IN
        /\ \A k \in 1..Len(walked) :
                Occurrences(response.body.data, walked[k].id) = 1
        /\ \A k \in 1..Len(response.body.data) :
                \E j \in 1..Len(walked) : walked[j] = response.body.data[k]
        /\ response.body.count = Len(response.body.data)
    /\ Answered("search") =>
        /\ response.body.data = tasks[1].allBookings
        /\ response.body.count = Len(response.body.data)

\* the default listing answered two bookings, one of them cancelled
C12_Witness ==
    /\ DefaultListing /\ response.status = 200
    /\ Len(response.body.data) = 2
    /\ \E k \in 1..Len(response.body.data) :
            response.body.data[k].status = "cancelled"

\* the year, month and day a date string names
CivilOf(s) ==
    [y |-> DigitPrefix(SubSeq(s, 1, 4), 0), m |-> DigitPrefix(SubSeq(s, 6, 7), 0),
     d |-> DigitPrefix(SubSeq(s, 9, 10), 0)]

\* the civil date after c
NextCivil(c) ==
    IF c.d < DaysInMonth(c.y, c.m) THEN [c EXCEPT !.d = @ + 1]
    ELSE IF c.m < 12 THEN [y |-> c.y, m |-> c.m + 1, d |-> 1]
    ELSE [y |-> c.y + 1, m |-> 1, d |-> 1]

RECURSIVE AddCivilDays(_, _)
AddCivilDays(c, n) == IF n = 0 THEN c ELSE AddCivilDays(NextCivil(c), n - 1)

\* the civil date one calendar month before c; a day the earlier month
\* lacks carries over into the month of c
MonthBack(c) ==
    LET y == IF c.m = 1 THEN c.y - 1 ELSE c.y
        m == IF c.m = 1 THEN 12 ELSE c.m - 1
    IN  IF c.d <= DaysInMonth(y, m) THEN [y |-> y, m |-> m, d |-> c.d]
        ELSE [y |-> c.y, m |-> c.m, d |-> c.d - DaysInMonth(y, m)]

(* C13: for GET /api/calendar with start date S and span N >= 1 the
   reported end is the civil date N calendar days after S, month and year
   rolling over, whatever the timezone of the host. *)
C13_CalendarEnd ==
    (call.fn = "calendarRange" /\ result.done /\ result.value.days >= 1) =>
        LET end == AddCivilDays(CivilOf(call.start), result.value.days)
        IN  result.value.end = IsoDate(end.y, end.m, end.d)

(* C14: departureFrom of the default GET /getBookings is today's civil date
   in Asia/Dhaka one calendar month back (the 1st gives the 1st of the month
   before), the same on every host, and departureTo is today. *)
C14_OneMonthAgo ==
    (call.fn = "pastWindow" /\ result.done) =>
        LET back == MonthBack(CivilOf(call.today))
        IN  /\ result.value.departureFrom = IsoDate(back.y, back.m, back.d)
            /\ result.value.departureTo = call.today

NoDuplicateId(list) ==
    \A j, k \in 1..Len(list) : j # k => list[j].id # list[k].id

(* C15: a merge given the same records as two of its sources returns what
   it returns for them given once: the same records with the same field
   values in the same order, no id twice, and no id lost (in the calendar:
   no id of a non-cancelled record). *)
C15_MergeIdempotent ==
    (call.fn = "merge" /\ result.done) =>
        LET v == result.value IN
        /\ v.listingTwice = v.listingOnce
        /\ v.calendarTwice = v.calendarOnce
        /\ NoDuplicateId(v.listingTwice) /\ NoDuplicateId(v.calendarTwice)
        /\ \A k \in 1..Len(call.records) :
                /\ HasId(v.listingTwice, call.records[k].id)
                /\ call.records[k].status # "cancelled" =>
                        HasId(v.calendarTwice, call.records[k].id)

\* a list holding an id in two versions, and a second id, was merged
C15_Witness ==
    /\ call.fn = "merge" /\ result.done
    /\ \E j, k \in 1..Len(call.records) :
            /\ call.records[j].id = call.records[k].id
            /\ call.records[j] # call.records[k]
    /\ Len(result.value.listingTwice) = 2
    /\ Len(result.value.calendarTwice) = 2

\* the requests the fetches of the request have sent carry this token or none
UsedFetches == {i \in 1..Len(tasks) : tasks[i].calls > 0}

NoWriteTokenTraffic ==
    /\ \A i \in 1..Len(tasks) : tasks[i].endpoint # RefreshEndpoint
    /\ writeTokenCache = [token |-> Null, expiresAt |-> 0]

(* C16 as stated: every upstream request of a GET view carries the read
   credential, no token-refresh request is sent and writeTokenCache keeps
   its value. *)
C16_ReadCredential ==
    req.view \in ReadViews =>
        /\ \A i \in UsedFetches : tasks[i].token = BEDS24_READ_TOKEN
        /\ NoWriteTokenTraffic

(* C16, amended: every request a GET view sends to the Beds24 API directly
   carries the read credential, a request sent through the proxy fallback
   carries no credential, no token-refresh request is sent and
   writeTokenCache keeps its value. *)
C16_ReadCredentialDirect ==
    req.view \in ReadViews =>
        /\ \A i \in UsedFetches :
                /\ tasks[i].token \in {BEDS24_READ_TOKEN, NoToken}
                /\ tasks[i].st = "direct" => tasks[i].token = BEDS24_READ_TOKEN
                /\ tasks[i].st = "proxy" => tasks[i].token = NoToken
        /\ NoWriteTokenTraffic

\* of the fetches of a GET view one is out at the direct API and one at the proxy
C16_Witness ==
    /\ req.view \in ReadViews
    /\ \E i, j \in UsedFetches :
            /\ tasks[i].st = "direct" /\ tasks[i].token = BEDS24_READ_TOKEN
            /\ tasks[j].st = "proxy" /\ tasks[j].token = NoToken

(* C17: every upstream request of a write operation (POST /bookings,
   POST /?endpoint=, POST /beds24/...) carries the write credential of
   writeTokenCache, never the read credential. *)
C17_WriteCredential ==
    req.view \in WriteViews =>
        \A i \in UsedFetches :
            /\ tasks[i].token # BEDS24_READ_TOKEN
            /\ tasks[i].token = writeTokenCache.token

\* the list a settled fetch of the dashboard contributes: its records, or
\* nothing when it was rejected
Contribution(t) == IF t.st = "done" THEN RecordsOfTask(t) ELSE <<>>

(* C18: when some of its three fetches were rejected, GET /dashboard/data
   still answers success: true; a rejected fetch counts as the empty list,
   and data and stats are those of the lists of the other fetches. *)
C18_DashboardTolerant ==
    (req.view = "dashboard" /\ AllSettled(tasks) /\ SomeFailed(tasks)) =>
        LET current == Contribution(tasks[1])
            arrivals == Contribution(tasks[2])
            departures == Contribution(tasks[3])
        IN  /\ response.status = 200
            /\ response.body.success = TRUE
            /\ response.body.data = Kept(MapFold(<<>>, current \o arrivals \o departures))
            /\ response.body.stats.occupied = Len(Kept(current))
            /\ response.body.stats.totalActive = Len(response.body.data)

\* the parameters that have a value, as the pairs of key and text to send
HasValue(v) == v # Missing /\ v # NullValue /\ v # Str(<<>>)

Given(params, dropped) ==
    {[key |-> params[i].key, value |-> StringOf(params[i].value)] :
        i \in {j \in 1..Len(params) :
                    HasValue(params[j].value) /\ params[j].key \notin dropped}}

Sent(url) == {url.query[k] : k \in 1..Len(url.query)}

\* the parameter by which the proxy is told an endpoint it has no address for
Routing(endpoint) ==
    IF endpoint \in {"bookings", "rooms"} THEN {}
    ELSE {[key |-> "endpoint", value |-> <<endpoint>>]}

(* C19 as stated: the query parameters a GET sends upstream are exactly the
   parameters whose value is neither undefined, null nor '', each with its
   value, on the direct path and, propertyId left out, on the proxy path. *)
C19_QueryParameters ==
    (call.fn = "url" /\ result.done /\ call.method = "GET") =>
        /\ Sent(result.value.direct) = Given(call.params, {})
        /\ Sent(result.value.proxy) = Given(call.params, {"propertyId"})

(* C19, amended: the query parameters a GET sends upstream are exactly the
   parameters whose value is neither undefined, null nor '', each once and
   with its value, on the direct path; on the proxy path they are those
   without propertyId and, for an endpoint other than bookings and rooms,
   the routing parameter endpoint. *)
C19_QueryParametersRouted ==
    (call.fn = "url" /\ result.done /\ call.method = "GET") =>
        /\ Sent(result.value.direct) = Given(call.params, {})
        /\ Len(result.value.direct.query) = Cardinality(Given(call.params, {}))
        /\ Sent(result.value.proxy)
                = Given(call.params, {"propertyId"}) \cup Routing(call.endpoint)
        /\ Len(result.value.proxy.query)
                = Cardinality(Given(call.params, {"propertyId"}))
                  + Cardinality(Routing(call.endpoint))

\* a GET with propertyId, an empty filter and a null arrival was serialised
C19_Witness ==
    /\ call.fn = "url" /\ result.done /\ call.method = "GET"
    /\ call.params[1].value = Num(279646)
    /\ call.params[2].value = NullValue
    /\ call.params[3].value = Str(<<>>)
    /\ Len(result.value.direct.query) = 1
    /\ result.value.proxy.query = <<>>

(* C20: whatever the shape of the upstream payload (an object with a data
   array, a bare array, a single object) and whichever path served it, a
   fetchBeds24 call that returned lets its caller read an array as
   result.data.data. *)
C20_RecordsAsArray ==
    \A i \in 1..Len(tasks) :
        (tasks[i].kind = "fetch" /\ tasks[i].st = "done"
            /\ ~HoldsErrorPayload(tasks[i])) =>
                tasks[i].value.t = "arr"

\* the positions of list that hold the first record of their id
FirstOfId(list) ==
    SelectSeq([k \in 1..Len(list) |-> k],
              LAMBDA k : \A j \in 1..(k - 1) : list[j].id # list[k].id)

\* the last record of list with this id
LastOfId(list, id) ==
    list[CHOOSE k \in 1..Len(list) :
            list[k].id = id /\ \A j \in (k + 1)..Len(list) : list[j].id # id]

\* one record per id of list: ids in the order of their first occurrence,
\* each in the version of its last occurrence
OnePerId(list) ==
    [n \in 1..Len(FirstOfId(list)) |-> LastOfId(list, list[FirstOfId(list)[n]].id)]

\* what a merging view returns for source lists given in call-site order
MergedOutput(list) ==
    CASE req.view = "calendar" -> OnePerId(Kept(list))
      [] req.view = "dashboard" -> Kept(OnePerId(list))
      [] OTHER -> OnePerId(list)

Overtaken == \E i \in 1..Len(tasks) : tasks[i].overtook

(* C21: the merged output of the calendar, of the default listing and of the
   dashboard - its ids, the version of each id and the order of the records
   - is fixed by the contents of the fetches taken in call-site order,
   whatever the order in which the fetches completed; and a merged output is
   sent only when every fetch of the view has settled. *)
C21_CompletionOrder ==
    (MergingView /\ response.status = 200) =>
        /\ AllSettled(tasks)
        /\ response.body.data = MergedOutput(Concatenated(tasks))

\* a merged output was sent although a fetch had overtaken an earlier one
\* and two sources hold different versions of one id
C21_Witness ==
    /\ MergingView /\ response.status = 200
    /\ Overtaken
    /\ \E i, j \in 1..Len(tasks) :
         /\ i < j
         /\ tasks[j].overtook
         /\ \E a \in 1..Len(RecordsOfTask(tasks[i])),
               b \in 1..Len(RecordsOfTask(tasks[j])) :
                /\ RecordsOfTask(tasks[i])[a].id = RecordsOfTask(tasks[j])[b].id
                /\ RecordsOfTask(tasks[i])[a] # RecordsOfTask(tasks[j])[b]

Walks == {i \in 1..Len(tasks) : tasks[i].kind = "walk"}

\* the page requests of a walk that have not been answered yet
Outstanding(t) == Len(t.pages) - Len(t.nexts) - (IF t.st = "failed" THEN 1 ELSE 0)

(* C22: the page requests of one walk carry page = 1, 2, 3, ... in this
   order; the request for page n+1 is issued only after the response for
   page n has arrived and reported a next page; a walk never has two page
   requests outstanding. *)
C22_PagesInOrder ==
    \A i \in Walks :
        LET t == tasks[i] IN
        /\ \A n \in 1..Len(t.pages) : t.pages[n] = n
        /\ \A n \in 2..Len(t.pages) : Len(t.nexts) >= n - 1 /\ t.nexts[n - 1]
        /\ Outstanding(t) \in {0, 1}

\* a walk has requested its second page while another walk of the same
\* request is waiting for a page of its own
C22_Witness ==
    \E i, j \in Walks :
        /\ i # j
        /\ Len(tasks[i].pages) >= 2
        /\ Outstanding(tasks[i]) = 1
        /\ Outstanding(tasks[j]) = 1

(* C23: the data of GET /api/calendar is the fold of its three sources by id
   in list order (last source wins) with the records whose surviving version
   is cancelled removed afterwards: filtering before the fold, as the
   handler does, and after it give the same output. *)
C23_FilterThenFold ==
    Answered("calendar") =>
        response.body.data = Kept(OnePerId(Concatenated(tasks)))

RECURSIVE PagesFetched(_)
PagesFetched(ts) ==
    IF ts = <<>> THEN 0 ELSE Len(Head(ts).nexts) + PagesFetched(Tail(ts))

(* C24: the totalPages that fetchAllBookingPages returns is the number of
   pages the walk has fetched, also when the walk stopped at maxPages while
   the upstream still reported a next page; /getBookings and
   /getBookings/range report that number. *)
C24_TotalPages ==
    /\ \A i \in Walks :
          tasks[i].st = "done" => tasks[i].totalPages = Len(tasks[i].nexts)
    /\ (Answered("getBookings") \/ Answered("range")) =>
          response.body.totalPages = PagesFetched(tasks)

\* in this step the direct request of fetch i threw inside fetchBeds24
DirectThrew(i) ==
    /\ i <= Len(tasks') /\ tasks[i].st = "direct"
    /\ tasks'[i].calls = tasks[i].calls
    /\ tasks'[i].attempts = tasks[i].attempts + 1

\* in this step a request to the direct API was sent for fetch i
DirectSent(i) ==
    /\ tasks'[i].st = "direct"
    /\ i <= Len(tasks) => (tasks[i].st # "direct" \/ tasks'[i].calls # tasks[i].calls)

RECURSIVE CallsMade(_)
CallsMade(ts) == IF ts = <<>> THEN 0 ELSE Head(ts).calls + CallsMade(Tail(ts))

FlagStaysOff ==
    /\ (\E i \in 1..Len(tasks) : DirectThrew(i)) => ~useDirectApi'
    /\ ~useDirectApi =>
          /\ ~useDirectApi'
          /\ \A i \in 1..Len(tasks') : ~DirectSent(i)

(* C25: when a direct call of fetchBeds24 throws, useDirectApi becomes
   false, and it never becomes true again: from then on no request of any
   fetchBeds24 call, of this or of a later request, is sent to the direct
   API. *)
C25_DirectOffForGood == [][FlagStaysOff]_vars

\* with the flag off, a request whose fetchBeds24 calls have each sent one
\* HTTP request - none fell back - is waiting for the proxy
C25_Witness ==
    /\ ~useDirectApi
    /\ nUpstream = CallsMade(tasks)
    /\ \E i \in 1..Len(tasks) : tasks[i].st = "proxy" /\ tasks[i].attempts = 1

(* C26: a failed upstream call is not retried within the request: each
   fetchBeds24 call sends at most one HTTP request for its query, so a
   request never sends more HTTP requests than it makes fetchBeds24 calls. *)
C26_NoRetry ==
    /\ \A i \in 1..Len(tasks) : tasks[i].attempts <= 1
    /\ nUpstream <= CallsMade(tasks)

\* the expiry the authentication endpoint stated for a token it issued
StatedExpiry(token) ==
    issued[CHOOSE k \in 1..Len(issued) : issued[k].token = token].expiry

(* C28: getWriteToken returns the cached token without a request to the
   authentication endpoint exactly when a token is cached whose cached
   expiry is more than 300000 ms after the time of the call; otherwise it
   sends one refresh request and, when a token arrives, caches it with
   expiry = time of the call + expiresIn * 1000 - 60000; a token returned
   from the cache has more than five minutes left before the expiry the
   endpoint stated for it. *)
C28_WriteTokenCache ==
    \A c \in Callers :
        LET k == tokenCalls[c] IN
        k.st # "idle" =>
            /\ k.requests \in {0, 1}
            /\ k.requests = 0 <=>
                  (k.seen.token # Null /\ k.seen.expiresAt > k.now + 300000)
            /\ k.requests = 0 =>
                  /\ k.st = "returned"
                  /\ k.value = k.seen.token
                  /\ StatedExpiry(k.value) > k.now + 300000
            /\ (k.st = "returned" /\ k.requests = 1 /\ k.value # Null) =>
                  k.cached = [token |-> k.value,
                              expiresAt |-> k.now + k.expiresIn * 1000 - 60000]

\* one invocation refreshed the token, and minutes later another got the
\* same token from the cache
C28_Witness ==
    \E c, d \in Callers :
        /\ tokenCalls[c].st = "returned" /\ tokenCalls[c].requests = 1
        /\ tokenCalls[d].st = "returned" /\ tokenCalls[d].requests = 0
        /\ tokenCalls[d].value = tokenCalls[c].value
        /\ tokenCalls[d].now > tokenCalls[c].now

\* a handler is about to write the document of this passcode
WritePending == \E v \in Verifiers : verifies[v].st = "write"

(* C27: at most three wrong codes are ever compared with one issued
   passcode, under every interleaving of the verify requests for the email:
   when the third wrong code has been compared and its handler has finished,
   the passcode is gone. *)
C27_ThreeWrongCodes ==
    \A g \in 1..Len(compared) :
        /\ compared[g] <= 3
        /\ (compared[g] >= 3 /\ ~WritePending) => ~(otpDoc.exists /\ otpDoc.issue = g)

(* C29: the 50 ms delay of fetchAllBookingPages runs only between two page
   requests: a walk that is sleeping goes on to request another page,
   whether its last page reported no next page or reached maxPages. *)
C29_DelayBetweenPages ==
    \A i \in Walks : tasks[i].st = "delay" => LoopContinues(tasks[i])

(* C30: the list fetchAllBookingPages accumulates and returns is the
   concatenation of the record lists of the pages it fetched, in page order
   and in the upstream's order within a page; a record on two pages is in
   it twice. *)
C30_Concatenation ==
    \A i \in Walks : tasks[i].allBookings = tasks[i].delivered

\* in this step fetch i heard from the direct API, or its transport failed
DirectAnswered(i) ==
    /\ Len(tasks') = Len(tasks)
    /\ tasks[i].st = "direct"
    /\ tasks'[i] # tasks[i]

\* in this step fetchBeds24 was entered for fetch i
Called(i) == i > Len(tasks) \/ tasks'[i].calls # tasks[i].calls

\* the number a header carries, or d when the response has no such header
HeaderOr(v, d) == IF v = Missing THEN Finite(d) ELSE ParseFloatString(v.s)

RateLimitTracked ==
    /\ \A i \in 1..Len(tasks) :
          DirectAnswered(i) =>
              LET h == tasks'[i].headers IN
              /\ h.remaining # Missing =>
                    rateLimitInfo' = [remaining |-> ParseFloatString(h.remaining.s),
                                      resetsIn |-> HeaderOr(h.resetsIn, 0),
                                      requestCost |-> HeaderOr(h.requestCost, 1),
                                      lastUpdated |-> now]
              /\ h.remaining = Missing =>
                    /\ rateLimitInfo' = rateLimitInfo
                    /\ tasks'[i].st # "failed"
    /\ (\A i \in 1..Len(tasks) : ~DirectAnswered(i)) => rateLimitInfo' = rateLimitInfo
    /\ \A i \in 1..Len(tasks') :
          Called(i) => (tasks'[i].st = "direct" <=> useDirectApi)

(* C31: a direct upstream response that carries the remaining-credits header
   overwrites rateLimitInfo with the values of that response; a response
   without the header, and every other step, leaves rateLimitInfo as it
   was, and the call does not fail for the lack of headers; every
   fetchBeds24 call is routed by useDirectApi alone, whatever rateLimitInfo
   holds. *)
C31_RateLimitSnapshot == [][RateLimitTracked]_vars

\* with no credits remaining according to the snapshot, a later page of a
\* walk has been requested from the direct API
C31_Witness ==
    /\ rateLimitInfo.remaining = Finite(0)
    /\ rateLimitInfo.lastUpdated > 0
    /\ \E i \in 1..Len(tasks) :
          /\ tasks[i].st = "direct" /\ tasks[i].calls >= 2
          /\ tasks[i].headers.remaining = Str(<<"0">>)

\* every record of merged is the last version of its id in sources
LastVersions(merged, sources) ==
    \A k \in 1..Len(merged) : merged[k] = LastOfId(sources, merged[k].id)

(* C32: in the merges that go through a Set of seen ids - GET
   /dashboard/bookings of src/index.js over [current, future] and GET
   /dashboard/data of v4.0 over [current, arrivals, departures] - the
   merged record of an id that two sources return in different versions is
   the version of the source that comes last in the fetch-list order. *)
C32_SetMergeLastWins ==
    (call.fn = "setMerge" /\ result.done) =>
        /\ LastVersions(result.value.bookings, call.current \o call.arrivals)
        /\ LastVersions(result.value.dashboard.data,
                        call.current \o call.arrivals \o call.departures)

\* the records of list that are not cancelled and satisfy the day test
ActiveOn(list, field, day) ==
    Len(SelectSeq(list, LAMBDA b : b.status # "cancelled" /\ b[field] = day))

(* C38: every count in the stats of GET /dashboard/data - occupied,
   checkInsToday, checkOutsToday, totalActive - counts only records whose
   status is not 'cancelled'. *)
C38_StatsSkipCancelled ==
    Answered("dashboard") =>
        LET stats == response.body.stats
            current == RecordsOfTask(tasks[1])
            arrivals == RecordsOfTask(tasks[2])
            departures == RecordsOfTask(tasks[3])
        IN  /\ stats.occupied = Len(Kept(current))
            /\ stats.checkInsToday = ActiveOn(arrivals, "arrival", req.date)
            /\ stats.checkOutsToday = ActiveOn(departures, "departure", req.date)
            /\ stats.totalActive = Len(Kept(response.body.data))

\* the client's last verify-otp request was answered with success
Verified(v) == verifies[v].st = "idle" /\ verifies[v].status = 200

(* C33: an issued passcode yields at most one successful verification: once
   one verify-otp request with the right code has succeeded, every other
   request presenting the same code is rejected, whether it comes afterwards
   or runs concurrently. *)
C33_OneSuccessPerOtp ==
    \A v, w \in Verifiers :
        (v # w /\ Verified(v) /\ Verified(w)) => verifies[v].otp # verifies[w].otp

-----------------------------------------------------------------------------
(* Real-time stream and webhook: GET /api/stream registers the response in
   sseClients, POST /webhook/booking stores a notification and broadcasts it
   to the registered responses.  Every callback runs to completion or to its
   next await before another one starts. *)

\* what a write on a response stream can do: the chunk goes out, it is
\* buffered because the client does not read, or write throws
WriteOutcomes == {"sent", "buffered", "throws"}

\* the bodies the provider posts: a nested new booking, a flat cancelled
\* booking, and an object that names neither a booking nor an action
Bodies ==
    {[shape |-> "nested", cancelTime |-> Undef, bookingTime |-> "t1",
      modifiedTime |-> "t1", action |-> Undef],
     [shape |-> "flat", cancelTime |-> "t2", bookingTime |-> "t1",
      modifiedTime |-> "t2", action |-> Undef],
     [shape |-> "bare", cancelTime |-> Undef, bookingTime |-> Undef,
      modifiedTime |-> Undef, action |-> Undef]}

\* the action the handler derives from the body
WebhookAction(b) ==
    IF b.shape = "nested"
    THEN IF b.cancelTime # Undef THEN "cancelled"
         ELSE IF b.bookingTime = b.modifiedTime THEN "new_booking" ELSE "modified"
    ELSE IF b.shape = "flat"
    THEN IF b.cancelTime # Undef THEN "cancelled" ELSE OrElse(b.action, "modified")
    ELSE IF b.action # Undef THEN b.action ELSE "unknown"

\* sseClients.delete(client)
SetDelete(set, client) == SelectSeq(set, LAMBDA c : c # client)

\* sseClients.forEach(client => client.write(message)): one write per
\* element, in insertion order
RECURSIVE ForEachWrite(_, _)
ForEachWrite(clients, o) ==
    IF clients = <<>> THEN <<>>
    ELSE <<[client |-> Head(clients), outcome |-> o[Head(clients)] ] >>
         \o ForEachWrite(Tail(clients), o)

\* the writes of a forEach whose callback lets the first exception escape
RECURSIVE ForEachUntilThrow(_, _)
ForEachUntilThrow(clients, o) ==
    IF clients = <<>> THEN <<>>
    ELSE <<[client |-> Head(clients), outcome |-> o[Head(clients)] ] >>
         \o (IF o[Head(clients)] = "throws" THEN <<>>
             ELSE ForEachUntilThrow(Tail(clients), o))

\* a broadcast without the try/catch around client.write
broadcastUncaught(clients, o) ==
    [writes |-> ForEachUntilThrow(clients, o),
     clients |-> clients,
     threw |-> \E i \in 1..Len(clients) : o[clients[i]] = "throws"]

\* a broadcast that keeps the clients whose write threw
broadcastKeeping(clients, o) ==
    [writes |-> ForEachWrite(clients, o), clients |-> clients, threw |-> FALSE]

\* broadcastToClients(event, data): every registered response is written
\* once; a write that throws is caught and its response leaves the registry
broadcastToClients(clients, o) ==
    [writes |-> ForEachWrite(clients, o),
     clients |-> SelectSeq(clients, LAMBDA c : o[c] # "throws"),
     threw |-> FALSE]

\* GET /api/stream: the connected event is written, the response joins the
\* registry and its heartbeat timer starts
Connect(c) ==
    /\ streams[c].st = "none"
    /\ sseClients' = Append(sseClients, c)
    /\ streams' = [streams EXCEPT ![c] = [@ EXCEPT !.st = "open", !.beating = TRUE]]
    /\ UNCHANGED <<baseVars, sessionVars, cacheVars, webhooks, notifications>>

\* the heartbeat timer of a connection fires
Heartbeat(c) ==
    /\ streams[c].beating
    /\ streams[c].beats < MaxBeats
    /\ \E outcome \in WriteOutcomes :
        IF outcome = "throws"
        THEN /\ streams' = [streams EXCEPT ![c] =
                    [@ EXCEPT !.beating = FALSE, !.failed = TRUE]]
             /\ sseClients' = SetDelete(sseClients, c)
        ELSE /\ streams' = [streams EXCEPT ![c] = [@ EXCEPT !.beats = @ + 1]]
             /\ UNCHANGED sseClients
    /\ UNCHANGED <<baseVars, sessionVars, cacheVars, webhooks, notifications>>

\* req.on('close'): the timer is cleared and the response leaves the registry
Close(c) ==
    /\ streams[c].st = "open"
    /\ streams' = [streams EXCEPT ![c] = [@ EXCEPT !.st = "closed", !.beating = FALSE]]
    /\ sseClients' = SetDelete(sseClients, c)
    /\ UNCHANGED <<baseVars, sessionVars, cacheVars, webhooks, notifications>>

\* a handler that broadcasts before it stores the notification
WebhookReceivedNotifying(w) ==
    /\ webhooks[w].st = "idle"
    /\ \E b \in Bodies :
        webhooks' = [webhooks EXCEPT ![w] =
            [NoHook EXCEPT !.st = "add", !.action = WebhookAction(b),
                           !.writes = ForEachWrite(sseClients, [c \in Clients |-> "sent"])]]
    /\ UNCHANGED <<baseVars, sessionVars, cacheVars, sseClients, streams, notifications>>

\* a delivery arrives: the handler derives the action and awaits
\* notificationsCollection.add(notification)
WebhookReceived(w) ==
    /\ webhooks[w].st = "idle"
    /\ \E b \in Bodies :
        webhooks' = [webhooks EXCEPT ![w] =
            [NoHook EXCEPT !.st = "add", !.action = WebhookAction(b)]]
    /\ UNCHANGED <<baseVars, sessionVars, cacheVars, sseClients, streams, notifications>>

\* Firestore writes the notification document
AddApplied(w) ==
    /\ webhooks[w].st = "add"
    /\ notifications' = Append(notifications, [hook |-> w, action |-> webhooks[w].action])
    /\ webhooks' = [webhooks EXCEPT ![w] = [@ EXCEPT !.st = "stored"]]
    /\ UNCHANGED <<baseVars, sessionVars, cacheVars, sseClients, streams>>

\* add() rejects: the catch answers 200 with success: false
AddRejects(w) ==
    /\ webhooks[w].st = "add"
    /\ webhooks' = [webhooks EXCEPT ![w] =
            [@ EXCEPT !.st = "done", !.status = 200, !.success = FALSE,
                      !.error = "store error"]]
    /\ UNCHANGED <<baseVars, sessionVars, cacheVars, sseClients, streams, notifications>>

\* add() resolves: the handler broadcasts booking_update if any client is
\* registered, and answers
AddResolves(w) ==
    /\ webhooks[w].st = "stored"
    /\ \E o \in [Clients -> WriteOutcomes] :
        LET b == IF Len(sseClients) > 0 THEN broadcastToClients(sseClients, o)
                 ELSE [writes |-> <<>>, clients |-> sseClients, threw |-> FALSE]
        IN  /\ sseClients' = b.clients
            /\ streams' = [c \in Clients |->
                    IF \E i \in 1..Len(b.writes) :
                           b.writes[i].client = c /\ b.writes[i].outcome = "throws"
                    THEN [streams[c] EXCEPT !.failed = TRUE] ELSE streams[c]]
            /\ webhooks' = [webhooks EXCEPT ![w] =
                    IF b.threw
                    THEN [@ EXCEPT !.st = "done", !.writes = b.writes, !.status = 200,
                                   !.success = FALSE, !.error = "write error"]
                    ELSE [@ EXCEPT !.st = "done", !.writes = b.writes, !.status = 200,
                                   !.success = TRUE,
                                   !.sseClientsNotified = Len(b.clients)]]
    /\ UNCHANGED <<baseVars, sessionVars, cacheVars, notifications>>

NextPush ==
    \/ \E c \in Clients : Connect(c)
    \/ \E c \in Clients : Heartbeat(c)
    \/ \E c \in Clients : Close(c)
    \/ \E w \in Hooks : WebhookReceived(w)
    \/ \E w \in Hooks : AddApplied(w)
    \/ \E w \in Hooks : AddRejects(w)
    \/ \E w \in Hooks : AddResolves(w)

SpecPush == Init /\ [][NextPush]_vars

\* the booking_notifications collection holds the document of this delivery
Stored(w) == \E i \in 1..Len(notifications) : notifications[i].hook = w

\* the handler has answered this delivery
HookAnswered(w) == webhooks[w].st = "done"

(* C34: for every POST /webhook/booking the notification document is in the
   store before any SSE client is written to and before the response is
   sent; when the store write fails no client gets a booking_update for that
   delivery; and the answer always has status 200, with success: false and
   the error exactly when the handler failed. *)
C34_StoreThenNotify ==
    \A w \in Hooks :
        /\ webhooks[w].writes # <<>> => Stored(w)
        /\ HookAnswered(w) =>
            /\ webhooks[w].status = 200
            /\ webhooks[w].success <=> Stored(w)
            /\ ~webhooks[w].success =>
                (webhooks[w].error # Undef /\ webhooks[w].writes = <<>>)

C34_Witness ==
    \E w, x \in Hooks :
        /\ HookAnswered(w) /\ webhooks[w].success /\ webhooks[w].writes # <<>>
        /\ HookAnswered(x) /\ ~webhooks[x].success /\ sseClients # <<>>

\* the clients of a list of writes, in the order of the writes
WrittenTo(writes) == [i \in 1..Len(writes) |-> writes[i].client]

\* the step in which the handler of a stored delivery goes on
FanOut(w) ==
    (webhooks[w].st = "stored" /\ webhooks'[w].st # "stored") =>
        /\ webhooks'[w].st = "done"
        /\ webhooks'[w].status = 200 /\ webhooks'[w].success
        /\ WrittenTo(webhooks'[w].writes) = sseClients

(* C35: the fan-out is fire-and-forget: in the step that broadcasts a stored
   delivery the handler makes exactly one write attempt on every registered
   client, in registry order, and answers with success in that same step,
   whatever the writes do - a write that throws or is left unread neither
   fails the response nor keeps the later clients from being written to -
   and no delivery is ever left with writes made and the answer pending. *)
C35_FireAndForget ==
    [][\A w \in Hooks :
          /\ FanOut(w)
          /\ webhooks'[w].writes # <<>> => webhooks'[w].st = "done"]_vars

C35_Witness ==
    \E w \in Hooks :
        /\ HookAnswered(w) /\ webhooks[w].success
        /\ Len(webhooks[w].writes) = 2
        /\ webhooks[w].writes[1].outcome = "throws"
        /\ webhooks[w].writes[2].outcome = "buffered"

\* the elements of a sequence
Elements(s) == {s[i] : i \in 1..Len(s)}

\* the connections that have connected and have neither closed nor failed a write
Live == {c \in Clients : streams[c].st = "open" /\ ~streams[c].failed}

\* the registry holds exactly the live connections, each once
Registry == Elements(sseClients) = Live /\ Cardinality(Live) = Len(sseClients)

\* the writes a step adds to the broadcast of a delivery go to registered,
\* live connections only
WritesToRegistered ==
    \A w \in Hooks :
        webhooks'[w].writes # webhooks[w].writes =>
            Elements(WrittenTo(webhooks'[w].writes)) \subseteq (Elements(sseClients) \cap Live)

(* C36: sseClients holds exactly the /api/stream connections that have
   connected and have neither closed nor failed a write - added on connect,
   removed on the close event and when a broadcast or heartbeat write throws -
   and no broadcast writes to a connection after its removal, under every
   interleaving of connects, closes, heartbeats and deliveries. *)
C36_Registry == [][Registry /\ Registry' /\ WritesToRegistered]_vars

C36_Witness ==
    \E c, d \in Clients : \E w, x \in Hooks :
        /\ WrittenTo(webhooks[w].writes) = <<c, d>>
        /\ webhooks[w].writes[1].outcome = "throws"
        /\ WrittenTo(webhooks[x].writes) = <<d>>
        /\ streams[c].st = "open"

-----------------------------------------------------------------------------
(* Sessions: the logins create documents in the sessions collection under a
   fresh random token, and verifyAdminSession guards the /admin/* routes.
   The clock of this part advances in steps of four hours. *)

AdminLifetime == 14400000
UserLifetime == 86400000

\* the role of a housekeeping user's session
UserRoles == {"housekeeping"}

\* the k-th token generateToken() returned
SessionToken(k) == "S" \o ToString(k)

\* sessionsCollection.doc(token) does not exist
NoSession == [exists |-> FALSE, role |-> Undef, expiresAt |-> 0]

\* the Authorization headers a client may send: none, or a token that names
\* a session created so far or no session at all, with or without the
\* 'Bearer ' prefix, or the bare prefix
Headers ==
    {[present |-> FALSE, prefix |-> "", rest |-> ""],
     [present |-> TRUE, prefix |-> "Bearer ", rest |-> ""]} \cup
    [present : {TRUE}, prefix : {"Bearer ", ""},
     rest : {SessionToken(k) : k \in 0..Len(sessions)}]

\* req.headers.authorization?.replace('Bearer ', '')
BearerToken(header) ==
    IF header.present THEN header.rest ELSE Undef

\* sessionsCollection.doc(token).get()
SessionDoc(token) ==
    IF \E k \in 1..Len(sessions) : SessionToken(k) = token
    THEN sessions[CHOOSE k \in 1..Len(sessions) : SessionToken(k) = token]
    ELSE NoSession

\* a middleware that never finds a session expired
ExpiredNever(session, t) == FALSE

\* new Date() > session.expiresAt.toDate()
Expired(session, t) == t > session.expiresAt

\* /auth/admin/verify-otp with the right code: a four-hour admin session
AdminLogin ==
    /\ Len(sessions) < MaxSessions
    /\ sessions' = Append(sessions, [exists |-> TRUE, role |-> "system_admin",
                                     expiresAt |-> now + AdminLifetime])
    /\ UNCHANGED <<baseVars, pushVars, cacheVars, adminReqs>>

\* /auth/login: a 24-hour session with the user's role
UserLogin ==
    /\ Len(sessions) < MaxSessions
    /\ \E role \in UserRoles :
        sessions' = Append(sessions, [exists |-> TRUE, role |-> role,
                                      expiresAt |-> now + UserLifetime])
    /\ UNCHANGED <<baseVars, pushVars, cacheVars, adminReqs>>

\* a request to an /admin/* route arrives: without a token it is answered
\* 401, otherwise the middleware asks for the session document
AdminRequest(a) ==
    /\ adminReqs[a].st = "idle"
    /\ adminReqs[a].sent < MaxUses
    /\ \E header \in Headers :
        LET token == BearerToken(header)
            k == [IdleAdmin EXCEPT !.token = token, !.sent = adminReqs[a].sent + 1]
        IN  adminReqs' = [adminReqs EXCEPT ![a] =
                IF token = Undef \/ token = ""
                THEN [k EXCEPT !.status = 401, !.error = "No token provided"]
                ELSE [k EXCEPT !.st = "get"]]
    /\ UNCHANGED <<baseVars, pushVars, cacheVars, sessions>>

\* get() resolves and the middleware runs up to next() or its next await
SessionGetResolves(a) ==
    LET k == adminReqs[a]
        session == SessionDoc(k.token)
    IN
    /\ k.st = "get"
    /\ adminReqs' = [adminReqs EXCEPT ![a] =
            IF ~session.exists
            THEN [k EXCEPT !.st = "idle", !.status = 401, !.error = "Invalid session"]
            ELSE IF session.role # "system_admin"
            THEN [k EXCEPT !.st = "idle", !.status = 403,
                           !.error = "System admin access required"]
            ELSE IF Expired(session, now)
            THEN [k EXCEPT !.st = "delete", !.status = 401, !.error = "Session expired"]
            ELSE [k EXCEPT !.st = "idle", !.ran = TRUE]]
    /\ UNCHANGED <<baseVars, pushVars, cacheVars, sessions>>

\* Firestore deletes the expired session and the middleware answers 401
SessionDeleteApplied(a) ==
    /\ adminReqs[a].st = "delete"
    /\ sessions' = [k \in 1..Len(sessions) |->
            IF SessionToken(k) = adminReqs[a].token THEN NoSession ELSE sessions[k]]
    /\ adminReqs' = [adminReqs EXCEPT ![a] = [@ EXCEPT !.st = "idle"]]
    /\ UNCHANGED <<baseVars, pushVars, cacheVars>>

\* four hours pass
HoursPass ==
    /\ now < MaxClock * AdminLifetime
    /\ now' = now + AdminLifetime
    /\ UNCHANGED <<useDirectApi, req, tasks, response, nResponses, nUpstream,
                   writeTokenCache, call, result, tokenCalls, issued, otpDoc,
                   verifies, compared, rateLimitInfo, sideVars>>

NextSessions ==
    \/ AdminLogin
    \/ UserLogin
    \/ \E a \in Admins : AdminRequest(a)
    \/ \E a \in Admins : SessionGetResolves(a)
    \/ \E a \in Admins : SessionDeleteApplied(a)
    \/ HoursPass

SpecSessions == Init /\ [][NextSessions]_vars

\* the session a request's token names is an admin session that is not expired
ValidAdminSession(session) ==
    /\ session.exists
    /\ session.role = "system_admin"
    /\ ~(now > session.expiresAt)

\* the step in which the middleware decides on a request
AdminGate(a) ==
    LET session == SessionDoc(adminReqs[a].token) IN
    /\ (adminReqs'[a].ran /\ ~adminReqs[a].ran) => adminReqs[a].st = "get"
    /\ (adminReqs[a].st = "get" /\ adminReqs'[a].st # "get") =>
        /\ adminReqs'[a].ran <=> ValidAdminSession(session)
        /\ ~session.exists => (adminReqs'[a].st = "idle" /\ adminReqs'[a].status = 401)
        /\ (session.exists /\ session.role = "system_admin" /\ now > session.expiresAt) =>
            (adminReqs'[a].st = "delete" /\ adminReqs'[a].status = 401)
    /\ (adminReqs[a].st = "delete" /\ adminReqs'[a].st # "delete") =>
        /\ adminReqs'[a].st = "idle" /\ adminReqs'[a].status = 401
        /\ ~SessionDoc(adminReqs[a].token)'.exists

(* C37: a handler behind verifyAdminSession runs only if the bearer token
   names an existing session whose role is system_admin and whose expiresAt
   is not in the past; the first request that finds an admin session expired
   deletes it and is answered 401, a deleted session never comes back, and
   every request whose token names no existing session is answered 401. *)
C37_AdminGate ==
    [][/\ \A a \in Admins : AdminGate(a)
       /\ \A k \in 1..Len(sessions) : ~sessions[k].exists => ~sessions'[k].exists]_vars

C37_Witness ==
    \E a, b \in Admins :
        /\ adminReqs[a].st = "idle" /\ adminReqs[a].error = "Session expired"
        /\ adminReqs[b].st = "idle" /\ adminReqs[b].error = "Invalid session"
        /\ adminReqs[b].token = adminReqs[a].token

-----------------------------------------------------------------------------
(* v4.0 webhook cache: POST /webhook/booking of the older version awaits
   updateSingleBookingInCache(booking), which reads the document 'current' of
   the booking cache, changes the list in memory and writes the whole list
   back. *)

\* the booking ids a delivery names: each delivery is about its own booking
HookBookingId(w) == IF w = "w1" THEN "B1" ELSE "B2"

\* the versions of a booking the cache holds before the deliveries
CachedBooking(id) == [id |-> id, status |-> "confirmed", version |-> "cached"]

\* the lists a refresh may have found upstream
RefreshedLists ==
    {<<>>, <<CachedBooking("B1")>>, <<CachedBooking("B2"), CachedBooking("B3")>>,
     <<CachedBooking("B1"), CachedBooking("B2"), CachedBooking("B3")>>}

\* bookings.findIndex(b => b.id === booking.id), 0 for -1
FindIndex(bookings, id) ==
    IF \E i \in 1..Len(bookings) : bookings[i].id = id
    THEN CHOOSE i \in 1..Len(bookings) :
            bookings[i].id = id /\ \A j \in 1..(i - 1) : bookings[j].id # id
    ELSE 0

\* bookings.splice(idx, 1)
Splice(bookings, idx) ==
    SubSeq(bookings, 1, idx - 1) \o SubSeq(bookings, idx + 1, Len(bookings))

\* find and update or add: the list updateSingleBookingInCache writes back
UpdatedList(bookings, booking) ==
    LET idx == FindIndex(bookings, booking.id) IN
    IF idx >= 1
    THEN IF booking.status = "cancelled" THEN Splice(bookings, idx)
         ELSE [bookings EXCEPT ![idx] = booking]
    ELSE IF booking.status # "cancelled" THEN Append(bookings, booking)
    ELSE bookings

\* updateFirestoreBookingCache(bookings): a refresh writes the fetched list,
\* before any delivery arrives
UpdateFirestoreBookingCache ==
    /\ \A w \in Hooks : cacheUpdates[w].st = "idle"
    /\ \E bookings \in RefreshedLists :
        /\ bookingCache # [exists |-> TRUE, data |-> bookings, lastWebhook |-> Undef]
        /\ bookingCache' = [exists |-> TRUE, data |-> bookings, lastWebhook |-> Undef]
    /\ UNCHANGED <<baseVars, pushVars, sessionVars, cacheUpdates>>

\* a delivery with a booking: the handler calls updateSingleBookingInCache,
\* which asks for the cache document
UpdateSingleBookingInCache(w) ==
    /\ cacheUpdates[w].st = "idle"
    /\ \E status \in {"confirmed", "cancelled"} :
        cacheUpdates' = [cacheUpdates EXCEPT ![w] =
            [IdleUpdate EXCEPT !.st = "get",
                !.booking = [id |-> HookBookingId(w), status |-> status,
                             version |-> w]]]
    /\ UNCHANGED <<baseVars, pushVars, sessionVars, bookingCache>>

\* get() resolves: without a cache document the call ends, otherwise the
\* list is changed in memory and set() is awaited
CacheGetResolves(w) ==
    /\ cacheUpdates[w].st = "get"
    /\ cacheUpdates' = [cacheUpdates EXCEPT ![w] =
            IF bookingCache.exists
            THEN [@ EXCEPT !.st = "set",
                           !.bookings = UpdatedList(bookingCache.data,
                                                    cacheUpdates[w].booking)]
            ELSE [@ EXCEPT !.st = "done"]]
    /\ UNCHANGED <<baseVars, pushVars, sessionVars, bookingCache>>

\* Firestore replaces the document with the list of this call
CacheSetApplied(w) ==
    /\ cacheUpdates[w].st = "set"
    /\ bookingCache' = [exists |-> TRUE, data |-> cacheUpdates[w].bookings,
                        lastWebhook |-> cacheUpdates[w].booking.id]
    /\ cacheUpdates' = [cacheUpdates EXCEPT ![w] = [@ EXCEPT !.st = "done"]]
    /\ UNCHANGED <<baseVars, pushVars, sessionVars>>

NextCache ==
    \/ UpdateFirestoreBookingCache
    \/ \E w \in Hooks : UpdateSingleBookingInCache(w)
    \/ \E w \in Hooks : CacheGetResolves(w)
    \/ \E w \in Hooks : CacheSetApplied(w)

SpecCache == Init /\ [][NextCache]_vars

\* the cache holds the booking of this delivery, as the delivery sent it
InCache(w) ==
    \E i \in 1..Len(bookingCache.data) : bookingCache.data[i] = cacheUpdates[w].booking

\* the cache holds no booking of this delivery's id
NotInCache(w) ==
    \A i \in 1..Len(bookingCache.data) :
        bookingCache.data[i].id # cacheUpdates[w].booking.id

(* C39: once two updateSingleBookingInCache calls for different bookings
   have both completed against an existing cache document, the cache
   reflects both: each booking is there, as delivered, iff its status is not
   'cancelled', and no id has two entries - under every interleaving of the
   calls' reads and writes. *)
C39_BothUpdatesKept ==
    (bookingCache.exists /\ \A w \in Hooks : cacheUpdates[w].st = "done") =>
        /\ \A w \in Hooks :
              IF cacheUpdates[w].booking.status = "cancelled"
              THEN NotInCache(w) ELSE InCache(w)
        /\ \A i, j \in 1..Len(bookingCache.data) :
              bookingCache.data[i].id = bookingCache.data[j].id => i = j

====
